---- MODULE Spec2Model ----
(***************************************************************************)
(* Protocol state machines of scaproust (PAIR, PUSH, PUB) and the pipes    *)
(* they drive.  Option<T> values of the source are sequences of length at  *)
(* most one: None is << >> and Some(x) is <<x>>.                           *)
(***************************************************************************)
EXTENDS Integers, Sequences, FiniteSets, TLC

VARIABLES pair, pairOpts, pairTimers, pairEvt, pairWire, pairGhost, pairUser,
          push, pushEvt, pushGhost, pushLb,
          publ, pubReplies, pubCtx, pubGhost,
          fq, fqTimers, fqOp, fqGhost,
          surv, survTimers, survEvt, survGhost,
          ep, epTimers, epNet, epGhost,
          ad, adGhost, opts, optGhost,
          acc, ctl, survId

pairVars == <<pair, pairOpts, pairTimers, pairEvt, pairWire, pairGhost, pairUser>>

pushVars == <<push, pushEvt, pushGhost, pushLb>>

pubVars == <<publ, pubReplies, pubCtx, pubGhost>>

fqVars == <<fq, fqTimers, fqOp, fqGhost>>

survVars == <<surv, survTimers, survEvt, survGhost>>

epVars == <<ep, epTimers, epNet, epGhost>>

adVars == <<ad, adGhost>>

optVars == <<opts, optGhost>>

\* The acceptor of the TCP transport and the controller of a pipe
trVars == <<acc, ctl, survId>>

\* The state of the protocols added after PAIR, PUSH and PUB, and of the
\* endpoints.
extVars == <<fqVars, survVars, epVars, adVars, optVars, trVars>>

vars == <<pair, pairOpts, pairTimers, pairEvt, pairWire, pairGhost, pairUser,
          push, pushEvt, pushGhost, pushLb,
          publ, pubReplies, pubCtx, pubGhost,
          fq, fqTimers, fqOp, fqGhost,
          surv, survTimers, survEvt, survGhost,
          ep, epTimers, epNet, epGhost,
          ad, adGhost, opts, optGhost,
          acc, ctl, survId>>

(***************************************************************************)
(* Bounds                                                                  *)
(***************************************************************************)
MaxOps == 3
MaxToken == 2
MaxUrlLen == 4
MaxLinkMsgs == 2
MaxPushMsgs == 2
MaxPubOps == 5
MaxFqPipes == 3
MaxSurvPipes == 1
MaxSurveys == 2

None == << >>
Some(x) == <<x>>
IsSome(o) == Len(o) > 0
Unwrap(o) == o[1]

Msgs == 1..MaxOps
PushMsgs == 1..MaxPushMsgs
Tokens == 1..MaxToken
Sockets == {"A", "B"}
Peer(s) == IF s = "A" THEN "B" ELSE "A"
EventSets == {{"readable"}, {"writable"}, {"readable", "writable"}}

(***************************************************************************)
(* Pipe: the per-connection message state machine.  One frame per          *)
(* direction: the send side is Idle, Writing or Done (Completed, not yet   *)
(* acknowledged by the protocol); the receive side holds at most one       *)
(* assembled message (inbuf) and remembers whether the protocol asked for  *)
(* it (Reading).                                                           *)
(***************************************************************************)
NewPipe(token) ==
    [token |-> token, sst |-> "Idle", out |-> None, can_send |-> FALSE,
     rst |-> "Idle", inbuf |-> None]

\* pipe.send(msg): the results the stream can produce, each with the pipe
\* afterwards and the frames that reached the wire.  A stream that refused a
\* write or failed is not writable until the next writable event.
PipeSendResults(p, m) ==
    IF p.sst # "Writing" /\ p.can_send
    THEN { [pipe |-> [p EXCEPT !.sst = "Done"], status |-> "Completed", tx |-> <<m>>],
           [pipe |-> [p EXCEPT !.sst = "Writing", !.out = Some(m), !.can_send = FALSE],
            status |-> "InProgress", tx |-> << >>],
           [pipe |-> [p EXCEPT !.can_send = FALSE], status |-> "Postponed", tx |-> << >>],
           [pipe |-> [p EXCEPT !.can_send = FALSE], status |-> "Err", tx |-> << >>] }
    ELSE { [pipe |-> p, status |-> "Postponed", tx |-> << >>],
           [pipe |-> p, status |-> "Err", tx |-> << >>] }

\* pipe.recv(): an assembled message is handed over; otherwise the read is
\* started (InProgress) or put off (Postponed).
PipeRecvResults(p) ==
    IF IsSome(p.inbuf)
    THEN { [pipe |-> [p EXCEPT !.inbuf = None, !.rst = "Idle"],
            status |-> "Completed", msg |-> p.inbuf] }
    ELSE { [pipe |-> [p EXCEPT !.rst = "Reading"], status |-> "InProgress", msg |-> None],
           [pipe |-> p, status |-> "Postponed", msg |-> None],
           [pipe |-> p, status |-> "Err", msg |-> None] }

\* The write side of pipe.ready(events).
PipeReadyWrite(p, events) ==
    IF "writable" \notin events THEN { [pipe |-> p, sent |-> FALSE, tx |-> << >>] }
    ELSE IF p.sst = "Writing"
    THEN { [pipe |-> [p EXCEPT !.sst = "Done", !.out = None, !.can_send = TRUE],
            sent |-> TRUE, tx |-> p.out],
           [pipe |-> p, sent |-> FALSE, tx |-> << >>] }
    ELSE { [pipe |-> [p EXCEPT !.can_send = TRUE], sent |-> FALSE, tx |-> << >>] }

\* The read side of pipe.ready(events): a frame on the inbound wire is
\* assembled when the buffer is free, and handed up when a read was started.
PipeReadyRead(p, events, inbound) ==
    LET take == "readable" \in events /\ ~IsSome(p.inbuf) /\ Len(inbound) > 0
        buf  == IF take THEN Some(Head(inbound)) ELSE p.inbuf
    IN  IF "readable" \in events /\ p.rst = "Reading" /\ IsSome(buf)
        THEN [pipe |-> [p EXCEPT !.inbuf = None, !.rst = "Idle"],
              received |-> buf, rx |-> IF take THEN 1 ELSE 0]
        ELSE [pipe |-> [p EXCEPT !.inbuf = buf],
              received |-> None, rx |-> IF take THEN 1 ELSE 0]

\* pipe.ready(events): (sent, received), or an I/O error.
PipeReadyResults(p, events, inbound) ==
    { LET r == PipeReadyRead(w.pipe, events, inbound)
      IN  [pipe |-> r.pipe, err |-> FALSE, sent |-> w.sent, tx |-> w.tx,
           received |-> r.received, rx |-> r.rx] : w \in PipeReadyWrite(p, events) }
    \cup { [pipe |-> p, err |-> TRUE, sent |-> FALSE, tx |-> << >>,
            received |-> None, rx |-> 0] }

can_resume_send(p) == p.sst = "Idle" /\ p.can_send
can_resume_recv(p) == IsSome(p.inbuf)
finish_send(p) == [p EXCEPT !.sst = IF p.sst = "Done" THEN "Idle" ELSE p.sst]
\* A cancelled partial write stays in flight on the wire to keep the framing.
cancel_send(p) == [p EXCEPT !.sst = "Idle", !.out = None]
cancel_send_tx(p) == IF p.sst = "Writing" THEN p.out ELSE << >>
finish_recv(p) == [p EXCEPT !.rst = "Idle"]
cancel_recv(p) == [p EXCEPT !.rst = "Idle"]

(***************************************************************************)
(* PAIR (src/protocol/pair.rs).  The handlers are written on a world W:    *)
(* the Pair struct (st), the event loop's armed timeouts, the socket's     *)
(* notification channel (evt), the frames put on the wire (tx) and taken   *)
(* from it (rx), and per message the number of MsgSent / MsgNotSent        *)
(* notifications raised for its send (ans).                                *)
(***************************************************************************)
Notify(kind, err, msg) == [evt |-> kind, err |-> err, msg |-> msg]
Timer(kind, s, id) == [kind |-> kind, sock |-> s, id |-> id]

\* Pair::new
PairNew ==
    [pipe |-> None, cancel_send_timeout |-> None, cancel_recv_timeout |-> None,
     pending_send |-> None, pending_recv |-> FALSE]

\* EventLoopAction built by Socket::send / Socket::recv: clears timeout `id`,
\* or does nothing when no timeout is configured (id 0).
call_box(W, kind, action) ==
    [W EXCEPT !.timers = @ \ {Timer(kind, W.sock, action)}]

Answered(W, of) ==
    IF of \in DOMAIN W.ans THEN [W EXCEPT !.ans[of] = @ + 1] ELSE W

\* The send of message `of` is over: written out in full, or timed out.
Finished(W, of) ==
    IF of \in DOMAIN W.ans THEN [W EXCEPT !.fin = @ \cup {of}] ELSE W

Pair_on_msg_send_finished(W, e, of) ==
    LET W1 == [W EXCEPT !.evt = Append(@, e)]
        timeout == W1.st.cancel_send_timeout
        W2 == [W1 EXCEPT !.st.cancel_send_timeout = None]
        W3 == IF IsSome(timeout) THEN call_box(W2, "CancelSend", Unwrap(timeout)) ELSE W2
    IN  Answered([W3 EXCEPT !.st.pending_send = None], of)

Pair_on_msg_send_finished_ok(W, of) ==
    LET W1 == Pair_on_msg_send_finished(W, Notify("MsgSent", "", 0), of)
    IN  IF IsSome(W1.st.pipe)
        THEN [W1 EXCEPT !.st.pipe = Some(finish_send(Unwrap(@)))]
        ELSE W1

\* A variant that reports the error and leaves the pipe's send in progress.
Pair_on_msg_send_finished_err_keeps_pipe(W, err, of) ==
    Pair_on_msg_send_finished(W, Notify("MsgNotSent", err, 0), of)

Pair_on_msg_send_finished_err(W, err, of) ==
    LET W1 == Pair_on_msg_send_finished(W, Notify("MsgNotSent", err, 0), of)
    IN  IF IsSome(W1.st.pipe)
        THEN [W1 EXCEPT !.st.pipe = Some(cancel_send(Unwrap(@))),
                        !.tx = @ \o cancel_send_tx(Unwrap(W1.st.pipe))]
        ELSE W1

Pair_on_msg_send_started(W) == [W EXCEPT !.st.pending_send = None]

Pair_process_send_result(W, sent, sending, of) ==
    IF sent THEN Pair_on_msg_send_finished_ok(W, of)
    ELSE IF sending THEN Pair_on_msg_send_started(W)
    ELSE W

Pair_on_msg_recv_finished(W, e) ==
    LET W1 == [W EXCEPT !.evt = Append(@, e)]
        timeout == W1.st.cancel_recv_timeout
        W2 == [W1 EXCEPT !.st.cancel_recv_timeout = None]
        W3 == IF IsSome(timeout) THEN call_box(W2, "CancelRecv", Unwrap(timeout)) ELSE W2
    IN  [W3 EXCEPT !.st.pending_recv = FALSE]

Pair_on_msg_recv_finished_ok(W, msg) ==
    LET W1 == Pair_on_msg_recv_finished(W, Notify("MsgRecv", "", msg))
    IN  IF IsSome(W1.st.pipe)
        THEN [W1 EXCEPT !.st.pipe = Some(finish_recv(Unwrap(@)))]
        ELSE W1

Pair_on_msg_recv_finished_err(W, err) ==
    LET W1 == Pair_on_msg_recv_finished(W, Notify("MsgNotRecv", err, 0))
    IN  IF IsSome(W1.st.pipe)
        THEN [W1 EXCEPT !.st.pipe = Some(cancel_recv(Unwrap(@)))]
        ELSE W1

Pair_on_msg_recv_started(W) == [W EXCEPT !.st.pending_recv = FALSE]

Pair_process_recv_result(W, received, receiving) ==
    IF IsSome(received) THEN Pair_on_msg_recv_finished_ok(W, Unwrap(received))
    ELSE IF receiving THEN Pair_on_msg_recv_started(W)
    ELSE W

\* Pair::add_endpoint
Pair_add_endpoint(W, token) == [W EXCEPT !.st.pipe = Some(NewPipe(token))]

\* Pair::remove_endpoint
Pair_remove_endpoint(W, token) ==
    IF IsSome(W.st.pipe) /\ Unwrap(W.st.pipe).token = token
    THEN [W EXCEPT !.st.pipe = None]
    ELSE W

\* Pair::send: the worlds it can end in, one per result of pipe.send.
Pair_send(W, msg, cancel_timeout) ==
    LET W1 == [W EXCEPT !.st.cancel_send_timeout = Some(cancel_timeout)]
    IN  IF ~IsSome(W1.st.pipe)
        THEN { [W1 EXCEPT !.st.pending_send = Some(msg)] }
        ELSE { Pair_process_send_result(
                   [(IF r.status = "Completed" THEN Finished(W1, msg) ELSE W1)
                       EXCEPT !.st.pipe = Some(r.pipe),
                              !.st.pending_send = Some(msg),
                              !.tx = @ \o r.tx,
                              !.io_err = r.status = "Err"],
                   r.status = "Completed", r.status = "InProgress", msg)
               : r \in PipeSendResults(Unwrap(W1.st.pipe), msg) }

\* Pair::on_send_timeout (timeout `of` fired)
Pair_on_send_timeout(W, of) == Pair_on_msg_send_finished_err(W, "TimedOut", of)

\* Pair::recv
Pair_recv(W, cancel_timeout) ==
    LET W1 == [W EXCEPT !.st.cancel_recv_timeout = Some(cancel_timeout)]
    IN  IF ~IsSome(W1.st.pipe)
        THEN { [W1 EXCEPT !.st.pending_recv = TRUE] }
        ELSE { Pair_process_recv_result(
                   [W1 EXCEPT !.st.pipe = Some(r.pipe), !.st.pending_recv = TRUE,
                              !.io_err = r.status = "Err"],
                   r.msg, r.status = "InProgress")
               : r \in PipeRecvResults(Unwrap(W1.st.pipe)) }

\* Pair::on_recv_timeout
Pair_on_recv_timeout(W) == Pair_on_msg_recv_finished_err(W, "TimedOut")

\* Pair::ready, after pipe.ready returned (s, r) = (rr.sent, rr.received):
\* the pending send is resumed, then the pending recv.
Pair_ready_resume_recv(W, sent, sending, of, received, has_pending_recv) ==
    LET p == Unwrap(W.st.pipe)
    IN  IF has_pending_recv /\ ~IsSome(received) /\ can_resume_recv(p)
        THEN { IF r.status = "Err"
               THEN [W EXCEPT !.st.pipe = Some(r.pipe), !.io_err = TRUE]
               ELSE Pair_process_recv_result(
                        Pair_process_send_result(
                            [W EXCEPT !.st.pipe = Some(r.pipe)], sent, sending, of),
                        r.msg, r.status = "InProgress")
               : r \in PipeRecvResults(p) }
        ELSE { Pair_process_recv_result(
                   Pair_process_send_result(W, sent, sending, of), received, FALSE) }

Pair_ready_resume_send(W, rr, has_pending_send, has_pending_recv) ==
    LET p == Unwrap(W.st.pipe)
        of0 == IF IsSome(rr.tx) THEN Unwrap(rr.tx) ELSE 0
    IN  IF has_pending_send /\ ~rr.sent /\ can_resume_send(p)
        THEN UNION { IF r.status = "Err"
                     THEN { [W EXCEPT !.st.pipe = Some(r.pipe), !.io_err = TRUE] }
                     ELSE Pair_ready_resume_recv(
                              [(IF r.status = "Completed"
                                THEN Finished(W, Unwrap(W.st.pending_send)) ELSE W)
                                  EXCEPT !.st.pipe = Some(r.pipe), !.tx = @ \o r.tx],
                              r.status = "Completed", r.status = "InProgress",
                              Unwrap(W.st.pending_send), rr.received, has_pending_recv)
                     : r \in PipeSendResults(p, Unwrap(W.st.pending_send)) }
        ELSE Pair_ready_resume_recv(W, rr.sent, FALSE, of0, rr.received, has_pending_recv)

\* Pair::ready(token, events): the token is not looked at.
Pair_ready(W, token, events, inbound) ==
    IF ~IsSome(W.st.pipe)
    THEN { W }
    ELSE UNION { IF rr.err
                 THEN { [W EXCEPT !.st.pipe = Some(rr.pipe), !.io_err = TRUE] }
                 ELSE Pair_ready_resume_send(
                          [(IF rr.sent THEN Finished(W, Unwrap(rr.tx)) ELSE W)
                              EXCEPT !.st.pipe = Some(rr.pipe), !.tx = @ \o rr.tx,
                                    !.rx = @ + rr.rx],
                          rr, IsSome(W.st.pending_send), W.st.pending_recv)
                 : rr \in PipeReadyResults(Unwrap(W.st.pipe), events, inbound) }

(***************************************************************************)
(* PUSH (src/protocol/push.rs).  The handlers are written on a world W:    *)
(* the pipes map with the order its iteration visits the tokens (st), the  *)
(* notification channel (evt), and per message the pipes that took it      *)
(* (acc) and the MsgSent raised for it (cnt).                              *)
(***************************************************************************)
\* PushPipe::new
PushPipeNew(pipe) == [pipe |-> pipe, pending_send |-> None]

\* Push::new
PushNew == [pipes |-> << >>, order |-> << >>]

\* The orders in which a HashMap holding the tokens `toks` may iterate.
IterOrders(toks) ==
    { q \in [1..Cardinality(toks) -> toks] :
          \A i, j \in 1..Cardinality(toks) : i # j => q[i] # q[j] }

PushWithout(f, tok) == [t \in (DOMAIN f) \ {tok} |-> f[t]]
PushWith(f, tok, v) == [t \in (DOMAIN f) \cup {tok} |-> IF t = tok THEN v ELSE f[t]]

\* PushPipe::send: Ok(Some(true)), Ok(Some(false)), Ok(None) or Err
PushPipe_send(pp, msg) ==
    { [pp  |-> [pipe |-> r.pipe,
                pending_send |-> IF r.status = "Postponed" THEN Some(msg)
                                 ELSE pp.pending_send],
       res |-> CASE r.status = "Completed"  -> "SomeTrue"
                 [] r.status = "InProgress" -> "SomeFalse"
                 [] r.status = "Postponed"  -> "None"
                 [] OTHER                   -> "Err"]
      : r \in PipeSendResults(pp.pipe, msg) }

\* PushPipe::resume_pending_send
PushPipe_resume_pending_send(pp) ==
    IF ~IsSome(pp.pending_send)
    THEN { [pp |-> pp, res |-> "None"] }
    ELSE PushPipe_send([pp EXCEPT !.pending_send = None], Unwrap(pp.pending_send))

\* PushPipe::reset_pending_send
PushPipe_reset_pending_send(pp) == [pp EXCEPT !.pending_send = None]

\* Mutant: the message stays pending on every pipe.
Push_reset_all_kept(W) == W

\* for (_, pipe) in self.pipes.iter_mut() { pipe.reset_pending_send(); }
Push_reset_all(W) ==
    [W EXCEPT !.st.pipes = [t \in DOMAIN @ |-> PushPipe_reset_pending_send(@[t])]]

\* evt_sender.send(SocketEvt::MsgSent), raised for the send of `of`
Push_notify_sent(W, of) ==
    [W EXCEPT !.evt = Append(@, Notify("MsgSent", "", 0)),
              !.cnt = IF of \in DOMAIN @ THEN [@ EXCEPT ![of] = @ + 1] ELSE @]

\* What one PushPipe::send does to the world: the pipe afterwards, and which
\* pipe took the message.
Push_after_pipe_send(W, tok, msg, r) ==
    [W EXCEPT !.st.pipes[tok] = r.pp,
              !.acc[msg] = IF r.res \in {"SomeTrue", "SomeFalse"} THEN @ \cup {tok} ELSE @]

\* Push::add_pipe
Push_add_pipe(W, token, order) ==
    [W EXCEPT !.st.pipes = PushWith(@, token, PushPipeNew(NewPipe(token))),
              !.st.order = order]

\* Push::remove_pipe
Push_remove_pipe(W, token, order) ==
    [W EXCEPT !.st.pipes = PushWithout(@, token), !.st.order = order]

\* Push::ready
Push_ready(W, token, events) ==
    IF token \notin DOMAIN W.st.pipes
    THEN { W }
    ELSE UNION {
        IF rr.err
        THEN { [W EXCEPT !.st.pipes[token].pipe = rr.pipe] }
        ELSE IF rr.sent
        THEN { Push_notify_sent([W EXCEPT !.st.pipes[token].pipe = rr.pipe],
                                Unwrap(rr.tx)) }
        ELSE LET W1 == [W EXCEPT !.st.pipes[token].pipe = rr.pipe]
                 pp == W1.st.pipes[token]
                 m  == IF IsSome(pp.pending_send) THEN Unwrap(pp.pending_send) ELSE 0
             IN  { LET W2 == IF m = 0 THEN [W1 EXCEPT !.st.pipes[token] = r.pp]
                             ELSE Push_after_pipe_send(W1, token, m, r)
                   IN  CASE r.res = "SomeTrue"  -> Push_reset_all(Push_notify_sent(W2, m))
                         [] r.res = "SomeFalse" -> Push_reset_all(W2)
                         [] OTHER               -> W2
                   : r \in PushPipe_resume_pending_send(pp) }
        : rr \in PipeReadyResults(W.st.pipes[token].pipe, events, << >>) }

\* Push::send, the loop over the pipes from position i of the iteration on:
\* the worlds it can end in, with the flags sent, piped and shared.
RECURSIVE Push_send_loop(_, _, _, _)
Push_send_loop(W, msg, i, flags) ==
    IF i > Len(W.st.order) \/ flags.sent \/ flags.piped
    THEN { [W |-> W, flags |-> flags] }
    ELSE LET tok == W.st.order[i]
         IN  UNION { Push_send_loop(
                         Push_after_pipe_send(W, tok, msg, r), msg, i + 1,
                         [sent   |-> flags.sent \/ r.res = "SomeTrue",
                          piped  |-> flags.piped \/ r.res = "SomeFalse",
                          shared |-> flags.shared \/ r.res = "None"])
                     : r \in PushPipe_send(W.st.pipes[tok], msg) }

\* Push::send
Push_send(W, msg) ==
    { LET W1 == IF l.flags.sent THEN Push_notify_sent(l.W, msg) ELSE l.W
      IN  IF l.flags.sent \/ l.flags.piped
          THEN Push_reset_all(W1)
          ELSE IF ~l.flags.shared
          THEN [W1 EXCEPT !.evt = Append(@, Notify("MsgNotSent", "NotConnected", 0))]
          ELSE W1
      : l \in Push_send_loop(W, msg, 1,
                             [sent |-> FALSE, piped |-> FALSE, shared |-> FALSE]) }

\* The PUSH socket after construction.
PushIdle ==
    /\ push = PushNew
    /\ pushEvt = << >>
    /\ pushGhost = [sends |-> 0, id_seq |-> 0,
                    acc |-> [m \in PushMsgs |-> {}], cnt |-> [m \in PushMsgs |-> 0],
                    multi |-> 0]
    /\ pushLb = [last |-> 0, waiting |-> {}]

\* A pipe a send can be written to now.
PushSendReady(pp) == pp.pipe.sst # "Writing" /\ pp.pipe.can_send
PushReadyTokens(pipes) == {t \in DOMAIN pipes : PushSendReady(pipes[t])}

(***************************************************************************)
(* PUB (src/proto/publ.rs).  The handlers are written on a world W: the    *)
(* Pub struct (st: the pipe collection and the set bc of send-ready        *)
(* endpoints), the reply channel (replies), and the context: the value of  *)
(* the last CanSend event raised (can_send), the scheduled timeouts        *)
(* (sched) and the endpoints the last message was dispatched to (sent_to). *)
(***************************************************************************)
Eids == 1..MaxToken

\* Pub::from
PubNew == [pipes |-> {}, bc |-> {}]

\* ctx.raise(Event::CanSend(v))
Ctx_raise_can_send(W, v) == [W EXCEPT !.can_send = Some(v)]

\* ctx.cancel(sched)
Ctx_cancel(W, sched) == [W EXCEPT !.sched = @ \ {sched}]

\* broadcast::send_to_all: the message is dispatched to every send-ready pipe,
\* and a pipe that was given a message is not send-ready any more.
send_to_all(W) ==
    [W EXCEPT !.sent_to = W.st.bc \cap W.st.pipes, !.st.bc = {}]

\* Pub::add_pipe
Pub_add_pipe(W, eid) == [W EXCEPT !.st.pipes = @ \cup {eid}]

\* Mutant: the CanSend(false) event is not raised when the last ready pipe goes.
Pub_remove_pipe_silent(W, eid) ==
    [W EXCEPT !.st.bc = @ \ {eid}, !.st.pipes = @ \ {eid}]

\* Pub::remove_pipe
Pub_remove_pipe(W, eid) ==
    LET W1 == [W EXCEPT !.st.bc = @ \ {eid}]
        W2 == IF W1.st.bc = {} THEN Ctx_raise_can_send(W1, FALSE) ELSE W1
    IN  [W2 EXCEPT !.st.pipes = @ \ {eid}]

\* Mutant: a send with no ready pipe is answered with an error.
Pub_send_not_connected(W, msg, timeout) ==
    LET none == W.st.bc = {}
        W1 == Ctx_raise_can_send(send_to_all(W), FALSE)
        W2 == [W1 EXCEPT !.replies = Append(@, IF none THEN "Err" ELSE "Send")]
    IN  IF IsSome(timeout) THEN Ctx_cancel(W2, Unwrap(timeout)) ELSE W2

\* Pub::send
Pub_send(W, msg, timeout) ==
    LET W1 == Ctx_raise_can_send(send_to_all(W), FALSE)
        W2 == [W1 EXCEPT !.replies = Append(@, "Send")]
    IN  IF IsSome(timeout) THEN Ctx_cancel(W2, Unwrap(timeout)) ELSE W2

\* Pub::on_send_timeout
Pub_on_send_timeout(W) == W

\* Pub::on_send_ready
Pub_on_send_ready(W, eid) ==
    LET W1 == IF W.st.bc = {} THEN Ctx_raise_can_send(W, TRUE) ELSE W
    IN  [W1 EXCEPT !.st.bc = @ \cup {eid}]

\* Mutant: the recv timeout is left scheduled.
Pub_recv_keeps_timeout(W, timeout) ==
    [W EXCEPT !.replies = Append(@, "Err")]

\* Pub::recv
Pub_recv(W, timeout) ==
    LET W1 == [W EXCEPT !.replies = Append(@, "Err")]
    IN  IF IsSome(timeout) THEN Ctx_cancel(W1, Unwrap(timeout)) ELSE W1

\* Pub::on_recv_timeout
Pub_on_recv_timeout(W) == W

\* Pub::is_send_ready
Pub_is_send_ready(st) == st.bc # {}

\* Pub::is_recv_ready
Pub_is_recv_ready(st) == FALSE

\* The PUB socket after construction: no CanSend event has been raised.
PubIdle ==
    /\ publ = PubNew
    /\ pubReplies = << >>
    /\ pubCtx = [can_send |-> None, sched |-> {}, sent_to |-> {}]
    /\ pubGhost = [ops |-> 0, op |-> "none", timeout |-> None,
                   seen |-> {}, fresh |-> {}]

(***************************************************************************)
(* Fair queue (src/protocol/with_fair_queue.rs).  The handlers are written *)
(* on a world W: the pipes and the fair queue of the protocol (st), the    *)
(* event loop's armed timeouts (timers) and the notifications sent to the  *)
(* user, kept as the last one (reply) and their number since the request   *)
(* (ans).  The priority list orders the pipes by insertion within one      *)
(* priority; it holds the activated (recv-ready) pipes and the current     *)
(* one.  A pipe here is its pending recv only.                             *)
(***************************************************************************)
FqTokens == 1..MaxFqPipes

\* with_fair_queue.rs:45, the priority every pipe is inserted with
FqPriority == 8

PrioListNew == [items |-> << >>, active |-> {}, current |-> None]

PrioList_index(items, tok) == CHOOSE i \in 1..Len(items) : items[i] = tok

\* The first activated item after position i, going round; None if there is none.
PrioList_next_active(items, active, i) ==
    LET n == Len(items)
        at(k) == items[((i + k - 1) % n) + 1]
        steps == IF n = 0 THEN {} ELSE {k \in 1..n : at(k) \in active}
    IN  IF steps = {} THEN None
        ELSE Some(at(CHOOSE k \in steps : \A j \in steps : k <= j))

PrioList_insert(pl, tok, priority) == [pl EXCEPT !.items = Append(@, tok)]

PrioList_remove(pl, tok) ==
    IF tok \notin {pl.items[i] : i \in 1..Len(pl.items)} THEN pl
    ELSE LET i == PrioList_index(pl.items, tok)
             act == pl.active \ {tok}
         IN  [items |-> SubSeq(pl.items, 1, i - 1) \o SubSeq(pl.items, i + 1, Len(pl.items)),
              active |-> act,
              current |-> IF pl.current = Some(tok)
                          THEN PrioList_next_active(pl.items, act, i)
                          ELSE pl.current]

PrioList_get(pl) == pl.current

PrioList_activate(pl, tok) ==
    IF tok \notin {pl.items[i] : i \in 1..Len(pl.items)} THEN pl
    ELSE [pl EXCEPT !.active = @ \cup {tok},
                    !.current = IF IsSome(@) THEN @ ELSE Some(tok)]

PrioList_deactivate_and_advance(pl) ==
    IF ~IsSome(pl.current) THEN pl
    ELSE LET tok == Unwrap(pl.current)
             act == pl.active \ {tok}
         IN  [pl EXCEPT !.active = act,
                        !.current = PrioList_next_active(pl.items, act,
                                                         PrioList_index(pl.items, tok))]

FqPipeNew == [recv_pending |-> FALSE]

\* A pipe over a connection of its own.
FqPipeOf(conn) == [recv_pending |-> FALSE, conn |-> conn]

FqNew == [pipes |-> << >>, fair_queue |-> PrioListNew]

\* WithFairQueue::add_pipe: the map's insert replaces a pipe already there
Wfq_add_pipe(W, tok, pipe) ==
    [W EXCEPT !.st.pipes = PushWith(@, tok, pipe),
              !.add_res = IF tok \in DOMAIN W.st.pipes THEN "Err" ELSE "Ok"]

\* WithFairQueue::remove_pipe
Wfq_remove_pipe(W, tok) ==
    [W EXCEPT !.st.fair_queue = PrioList_remove(@, tok),
              !.st.pipes = PushWithout(@, tok)]

\* WithFairQueue::on_pipe_opened
Wfq_on_pipe_opened(W, tok) ==
    [W EXCEPT !.st.fair_queue = PrioList_insert(@, tok, FqPriority)]

\* WithFairQueue::get_active_pipe, as the token of the pipe
Wfq_get_active_pipe(st) ==
    IF IsSome(PrioList_get(st.fair_queue))
       /\ Unwrap(PrioList_get(st.fair_queue)) \in DOMAIN st.pipes
    THEN PrioList_get(st.fair_queue)
    ELSE None

\* WithFairQueue::is_active_pipe
Wfq_is_active_pipe(st, tok) == PrioList_get(st.fair_queue) = Some(tok)

Wfq_advance_pipe_stays(W) == W

\* WithFairQueue::advance_pipe
Wfq_advance_pipe(W) ==
    [W EXCEPT !.st.fair_queue = PrioList_deactivate_and_advance(@)]

\* WithFairQueue::ready
Wfq_ready(W, tok, events) ==
    IF "readable" \in events
    THEN [W EXCEPT !.st.fair_queue = PrioList_activate(@, tok)]
    ELSE W

\* WithFairQueue::recv: the active pipe starts to receive; false without one
Wfq_recv(W) ==
    IF IsSome(Wfq_get_active_pipe(W.st))
    THEN [W EXCEPT !.st.pipes[Unwrap(Wfq_get_active_pipe(W.st))].recv_pending = TRUE,
                   !.res = TRUE]
    ELSE [W EXCEPT !.res = FALSE]

\* WithFairQueue::on_recv_by_pipe
Wfq_on_recv_by_pipe(W, msg, timeout) ==
    LET W1 == [W EXCEPT !.reply = [kind |-> "MsgRecv", msg |-> msg], !.ans = @ + 1]
        W2 == Wfq_advance_pipe(W1)
    IN  IF IsSome(timeout) THEN [W2 EXCEPT !.timers = @ \ {Unwrap(timeout)}] ELSE W2

\* WithFairQueue::on_recv_timeout
Wfq_on_recv_timeout(W) ==
    LET W1 == [W EXCEPT !.reply = [kind |-> "MsgNotRecv", msg |-> 0], !.ans = @ + 1]
        a  == Wfq_get_active_pipe(W1.st)
        W2 == IF IsSome(a) THEN [W1 EXCEPT !.st.pipes[Unwrap(a)].recv_pending = FALSE]
              ELSE W1
    IN  Wfq_advance_pipe(W2)

\* A protocol with a fair queue after construction: no pipe, no request.
FqIdle ==
    /\ fq = FqNew
    /\ fqTimers = {}
    /\ fqOp = [phase |-> "idle", timeout |-> None,
               reply |-> [kind |-> "none", msg |-> 0], ans |-> 0]
    /\ fqGhost = [last |-> 0, since |-> {}, rot |-> FALSE]

(***************************************************************************)
(* SURVEYOR (src/protocol/surv.rs).  The handlers are written on a world   *)
(* W: the Surv struct (st), the event loop's armed timeouts (timers, by    *)
(* kind), the last notification of a send (sreply) and of a recv (reply)   *)
(* with the number of recv notifications the handler raised (ans), and the *)
(* survey id put in the header of the last survey (tx_id).  A raw message is the  *)
(* survey id its first four body bytes hold (sid), or is shorter than four *)
(* bytes (short).  Survey ids are SurvIdBits wide.                         *)
(***************************************************************************)
SurvTokens == 1..MaxSurvPipes

\* The width of a survey id, scaled down from the 32 bits of the source.
SurvIdBits == 4
SurvIdTop == 2 ^ (SurvIdBits - 1)
SurvIdMod == 2 ^ SurvIdBits

\* survey_id_seq starts at the nanoseconds of the clock: below 10^9, which is
\* less than a quarter of the range of a u32.  The largest start is taken.
SurvSeqStarts == {(SurvIdMod \div 4) - 1}

RawMsg(sid) == [sid |-> sid, short |-> FALSE]
ShortMsg == [sid |-> 0, short |-> TRUE]

\* seq | 0x80000000
SurvOrTop(seq) == IF seq >= SurvIdTop THEN seq ELSE seq + SurvIdTop

\* Surv::new
SurvNew(seq) ==
    [pipes |-> << >>, cancel_send_timeout |-> None, cancel_recv_timeout |-> None,
     pending_send |-> None, pending_recv |-> FALSE,
     pending_survey_id |-> None, survey_id_seq |-> seq]

Surv_next_survey_id_stuck(st) ==
    [id |-> SurvOrTop(st.survey_id_seq), st |-> st]

\* Surv::next_survey_id
Surv_next_survey_id(st) ==
    [id |-> SurvOrTop(st.survey_id_seq),
     st |-> [st EXCEPT !.survey_id_seq = (@ + 1) % SurvIdMod]]

\* Surv::raw_msg_to_msg: the message, its header now the id, and the id
Surv_raw_msg_to_msg(raw_msg) == [msg |-> raw_msg.sid, survey_id |-> raw_msg.sid]

\* Surv::msg_to_raw_msg: the id is written in the header
Surv_msg_to_raw_msg(msg, req_id) == RawMsg(req_id)

\* EventLoopAction built by Socket::send / Socket::recv: clears the timeout
\* of that kind, or does nothing when none is configured.
Surv_call_box(W, action) ==
    IF action = "none" THEN W ELSE [W EXCEPT !.timers = @ \ {action}]

SurvEachPipe(W, Op(_)) ==
    [W EXCEPT !.st.pipes = [t \in DOMAIN W.st.pipes |-> Op(W.st.pipes[t])]]

is_send_finished(p) == p.sst = "Done"
discard_recv(p) == [p EXCEPT !.rst = "Idle", !.inbuf = None]

\* History: pipe tok has sent the whole of the survey with this id; fin
\* holds the last survey of each attached pipe.
SurvFinished(W, tok, survey_id) ==
    [W EXCEPT !.fin = {f \in @ : f.tok # tok} \cup {[tok |-> tok, sid |-> survey_id]}]

Surv_on_msg_send_finished(W, e) ==
    LET W1 == [W EXCEPT !.sreply = e, !.sans = @ + 1]
        timeout == W1.st.cancel_send_timeout
        W2 == [W1 EXCEPT !.st.cancel_send_timeout = None]
        W3 == IF IsSome(timeout) THEN Surv_call_box(W2, Unwrap(timeout)) ELSE W2
    IN  [W3 EXCEPT !.st.pending_send = None]

\* History: the survey that is acknowledged, the pipes attached at that
\* moment and what each has sent.
SurvAcked(W) ==
    [W EXCEPT !.acked = Some([sid |-> IF IsSome(W.st.pending_send)
                                      THEN Unwrap(W.st.pending_send).sid ELSE 0,
                              pipes |-> DOMAIN W.st.pipes, fin |-> W.fin])]

Surv_on_msg_send_finished_ok(W) ==
    SurvEachPipe(Surv_on_msg_send_finished(SurvAcked(W), Notify("MsgSent", "", 0)),
                 finish_send)

Surv_on_msg_send_finished_err(W, err) ==
    SurvEachPipe(Surv_on_msg_send_finished(W, Notify("MsgNotSent", err, 0)), cancel_send)

Surv_process_send_result(W, sent) ==
    IF sent /\ \A t \in DOMAIN W.st.pipes : is_send_finished(W.st.pipes[t])
    THEN Surv_on_msg_send_finished_ok(W)
    ELSE W

Surv_on_msg_recv_finished(W, e) ==
    LET W1 == [W EXCEPT !.reply = e, !.ans = @ + 1]
        timeout == W1.st.cancel_recv_timeout
        W2 == [W1 EXCEPT !.st.cancel_recv_timeout = None]
        W3 == IF IsSome(timeout) THEN Surv_call_box(W2, Unwrap(timeout)) ELSE W2
    IN  [W3 EXCEPT !.st.pending_recv = FALSE]

Surv_on_msg_recv_finished_ok(W, msg) ==
    SurvEachPipe(Surv_on_msg_recv_finished(W, Notify("MsgRecv", "", msg)), finish_recv)

Surv_on_msg_recv_finished_err(W, err) ==
    SurvEachPipe(Surv_on_msg_recv_finished(W, Notify("MsgNotRecv", err, 0)), cancel_recv)

Surv_on_msg_recv_started(W, token) ==
    [W EXCEPT !.st.pending_recv = FALSE,
              !.st.pipes = [t \in DOMAIN W.st.pipes |->
                               IF t = token THEN W.st.pipes[t]
                               ELSE discard_recv(W.st.pipes[t])]]

Surv_on_raw_msg_recv_any(W, raw_msg) ==
    IF raw_msg.short THEN W
    ELSE Surv_on_msg_recv_finished_ok(W, Surv_raw_msg_to_msg(raw_msg).msg)

\* Surv::on_raw_msg_recv: reading four bytes of a body that has them cannot fail
Surv_on_raw_msg_recv(W, raw_msg) ==
    IF raw_msg.short THEN W
    ELSE LET r == Surv_raw_msg_to_msg(raw_msg)
         IN  IF W.st.pending_survey_id = Some(r.survey_id)
             THEN Surv_on_msg_recv_finished_ok(W, r.msg)
             ELSE W

Surv_process_recv_result(W, received, receiving) ==
    IF IsSome(received) THEN Surv_on_raw_msg_recv(W, Unwrap(received))
    ELSE IF IsSome(receiving) THEN Surv_on_msg_recv_started(W, Unwrap(receiving))
    ELSE W

\* Surv::add_endpoint
Surv_add_endpoint(W, token) == [W EXCEPT !.st.pipes = PushWith(@, token, NewPipe(token))]

\* Surv::remove_endpoint
Surv_remove_endpoint(W, token) ==
    [W EXCEPT !.st.pipes = PushWithout(@, token), !.fin = {f \in @ : f.tok # token}]

\* The loop of Surv::send over the pipes: the pipes afterwards and `sent`.
\* Every pipe is visited, so the order of the visit does not show.
RECURSIVE Surv_send_loop(_, _, _)
Surv_send_loop(pipes, order, msg) ==
    IF order = << >> THEN { [pipes |-> pipes, sent |-> FALSE, done |-> {}] }
    ELSE { [pipes |-> [rest.pipes EXCEPT ![Head(order)] = r.pipe],
            sent  |-> rest.sent \/ r.status = "Completed",
            done  |-> rest.done \cup IF r.status = "Completed" THEN {Head(order)} ELSE {}]
           : r \in PipeSendResults(pipes[Head(order)], msg),
             rest \in Surv_send_loop(pipes, Tail(order), msg) }

\* Surv::send: writing the id in the header cannot fail
Surv_send(W, msg, cancel_timeout) ==
    LET n  == Surv_next_survey_id(W.st)
        W1 == [W EXCEPT !.st = [n.st EXCEPT !.cancel_send_timeout = Some(cancel_timeout),
                                           !.pending_survey_id = Some(n.id)],
                        !.tx_id = Surv_msg_to_raw_msg(msg, n.id).sid]
        raw_msg == Surv_msg_to_raw_msg(msg, n.id)
        order == CHOOSE q \in IterOrders(DOMAIN W1.st.pipes) : TRUE
    IN  { Surv_process_send_result(
              [W1 EXCEPT !.st.pipes = l.pipes, !.st.pending_send = Some(raw_msg),
                         !.fin = {f \in @ : f.tok \notin l.done}
                                 \cup {[tok |-> t, sid |-> n.id] : t \in l.done}],
              l.sent)
          : l \in Surv_send_loop(W1.st.pipes, order, raw_msg) }

\* Surv::on_send_timeout
Surv_on_send_timeout(W) == Surv_on_msg_send_finished_err(W, "TimedOut")

\* The loop of Surv::recv: the first pipe that hands a message over or starts
\* to read ends it.
RECURSIVE Surv_recv_loop(_, _)
Surv_recv_loop(pipes, order) ==
    IF order = << >> THEN { [pipes |-> pipes, received |-> None, receiving |-> None] }
    ELSE UNION { CASE r.status = "Completed" ->
                          { [pipes |-> [pipes EXCEPT ![Head(order)] = r.pipe],
                             received |-> r.msg, receiving |-> None] }
                   [] r.status = "InProgress" ->
                          { [pipes |-> [pipes EXCEPT ![Head(order)] = r.pipe],
                             received |-> None, receiving |-> Some(Head(order))] }
                   [] OTHER ->
                          Surv_recv_loop([pipes EXCEPT ![Head(order)] = r.pipe],
                                         Tail(order))
                 : r \in PipeRecvResults(pipes[Head(order)]) }

\* Surv::recv
Surv_recv(W, cancel_timeout) ==
    LET W1 == [W EXCEPT !.st.cancel_recv_timeout = Some(cancel_timeout)]
    IN  UNION { { Surv_process_recv_result(
                      [W1 EXCEPT !.st.pipes = l.pipes, !.st.pending_recv = TRUE],
                      l.received, l.receiving)
                  : l \in Surv_recv_loop(W1.st.pipes, order) }
                : order \in IterOrders(DOMAIN W1.st.pipes) }

\* Surv::on_recv_timeout
Surv_on_recv_timeout(W) == Surv_on_msg_recv_finished_err(W, "TimedOut")

\* The handler of the survey deadline: the survey is over, and a recv that
\* is outstanding fails.
Surv_on_survey_timeout(W) ==
    LET W1 == [W EXCEPT !.st.pending_survey_id = None]
    IN  IF IsSome(W1.st.cancel_recv_timeout)
        THEN Surv_on_msg_recv_finished_err(W1, "TimedOut")
        ELSE W1

Surv_ready_resume_recv(W, token, sent, received, has_pending_recv) ==
    LET p == W.st.pipes[token]
    IN  IF has_pending_recv /\ ~IsSome(received) /\ can_resume_recv(p)
        THEN { IF r.status = "Err"
               THEN [W EXCEPT !.st.pipes[token] = r.pipe, !.io_err = TRUE]
               ELSE Surv_process_recv_result(
                        Surv_process_send_result(
                            [W EXCEPT !.st.pipes[token] = r.pipe], sent),
                        r.msg,
                        IF r.status = "InProgress" THEN Some(token) ELSE None)
               : r \in PipeRecvResults(p) }
        ELSE { Surv_process_recv_result(Surv_process_send_result(W, sent),
                                        received, None) }

Surv_ready_resume_send(W, token, rr, has_pending_send, has_pending_recv) ==
    LET p == W.st.pipes[token]
    IN  IF has_pending_send /\ ~rr.sent /\ can_resume_send(p)
        THEN UNION { IF r.status = "Err"
                     THEN { [W EXCEPT !.st.pipes[token] = r.pipe, !.io_err = TRUE] }
                     ELSE Surv_ready_resume_recv(
                              IF r.status = "Completed"
                              THEN SurvFinished([W EXCEPT !.st.pipes[token] = r.pipe], token,
                                                Unwrap(W.st.pending_send).sid)
                              ELSE [W EXCEPT !.st.pipes[token] = r.pipe],
                              token,
                              r.status = "Completed", rr.received, has_pending_recv)
                     : r \in PipeSendResults(p, Unwrap(W.st.pending_send)) }
        ELSE Surv_ready_resume_recv(W, token, rr.sent, rr.received, has_pending_recv)

\* Surv::ready
Surv_ready(W, token, events, inbound) ==
    IF token \notin DOMAIN W.st.pipes
    THEN { Surv_process_recv_result(Surv_process_send_result(W, FALSE), None, None) }
    ELSE UNION { IF rr.err
                 THEN { [W EXCEPT !.st.pipes[token] = rr.pipe, !.io_err = TRUE] }
                 ELSE Surv_ready_resume_send(
                          IF rr.sent
                          THEN SurvFinished([W EXCEPT !.st.pipes[token] = rr.pipe], token,
                                            Unwrap(rr.tx).sid)
                          ELSE [W EXCEPT !.st.pipes[token] = rr.pipe],
                          token, rr,
                          IsSome(W.st.pending_send), W.st.pending_recv)
                 : rr \in PipeReadyResults(W.st.pipes[token], events, inbound) }

\* A SURVEYOR socket after construction.
\* track: the history of the sends (fin, acked, sans, acks) is kept.
SurvStart(track) ==
    /\ surv \in {SurvNew(seq) : seq \in SurvSeqStarts}
    /\ survTimers = {}
    /\ survEvt = [sreply |-> Notify("none", "", 0),
                  reply |-> Notify("none", "", 0), ans |-> 0]
    /\ survGhost = [surveys |-> 0, last_id |-> 0, old_ids |-> {},
                    expired |-> FALSE, recv_open |-> FALSE, track |-> track,
                    fin |-> {}, acked |-> None, sans |-> 0, acks |-> {}]

SurvIdle == SurvStart(FALSE)

(***************************************************************************)
(* The endpoints of a socket: pipes dialed by connect, pipes accepted by   *)
(* an acceptor, acceptors made by bind, and the Reconnect and Rebind       *)
(* timers.  src/ holds two revisions of the socket, core/socket.rs         *)
(* (CoreSocket_...) and socket.rs (Socket_...); a socket is of one of      *)
(* them.  The protocol keeps the pipes by token.                           *)
(***************************************************************************)
Revs == {"core", "old"}

Urls == {"tcp://a", "tcp://b"}

CoreDelayMs == 500

OldDelayMs == 200

EpEventSets == {{"readable"}, {"hup"}, {"error"}, {"readable", "hup"}}

EpTimer(kind, tok, addr, ms) == [kind |-> kind, tok |-> tok, addr |-> addr, ms |-> ms]

EpNew(rev) == [rev |-> rev, pipes |-> << >>, acceptors |-> << >>, id_seq |-> 0]

\* Protocol::add_pipe: the pipe is kept under its token; an error when the
\* token already had a pipe.
Protocol_add_pipe(W, tok, pipe) ==
    [W EXCEPT !.st.pipes = PushWith(@, tok, pipe),
              !.ok = tok \notin DOMAIN W.st.pipes]

\* Protocol::remove_pipe
Protocol_remove_pipe(W, tok) == [W EXCEPT !.st.pipes = PushWithout(@, tok)]

EpClose(W, tok) == [W EXCEPT !.closed = @ \cup {tok}]

EpSchedule(W, timer) == [W EXCEPT !.timers = Append(@, timer)]

\* send_notify: a notification on the user's reply channel
EpNotify(W, evt) == [W EXCEPT !.notes = Append(@, evt)]

\* next_token, when the caller names no token
EpToken(W, token) == IF IsSome(token) THEN Unwrap(token) ELSE W.st.id_seq + 1

EpTakeToken(W, token) ==
    IF IsSome(token) THEN W ELSE [W EXCEPT !.st.id_seq = @ + 1]

(******************************* core/socket.rs ****************************)
CoreSocket_schedule_reconnect(W, tok, addr) ==
    EpSchedule(W, EpTimer("Reconnect", tok, addr, CoreDelayMs))

CoreSocket_schedule_rebind(W, tok, addr) ==
    EpSchedule(W, EpTimer("Rebind", tok, addr, CoreDelayMs))

CoreSocket_on_connection_created(W, addr, token) ==
    Protocol_add_pipe(EpTakeToken(W, token), EpToken(W, token), [addr |-> addr])

CoreSocket_connect(W, addr, conn_ok) ==
    LET W1 == IF conn_ok THEN CoreSocket_on_connection_created(W, Some(addr), None)
              ELSE [W EXCEPT !.ok = FALSE]
    IN  EpNotify(W1, IF W1.ok THEN "Connected" ELSE "NotConnected")

\* A variant that reports a failed attempt to the user, as connect does.
CoreSocket_reconnect_notifies(W, addr, tok, conn_ok) ==
    LET W1 == IF conn_ok
              THEN CoreSocket_on_connection_created(W, Some(addr), Some(tok))
              ELSE [W EXCEPT !.ok = FALSE]
    IN  IF W1.ok THEN W1
        ELSE EpNotify(EpSchedule(W1, EpTimer("Reconnect", tok, addr, CoreDelayMs)),
                      "NotConnected")

\* A variant that schedules no other attempt when connecting fails.
CoreSocket_reconnect_once(W, addr, tok, conn_ok) ==
    IF conn_ok THEN CoreSocket_on_connection_created(W, Some(addr), Some(tok))
    ELSE [W EXCEPT !.ok = FALSE]

CoreSocket_reconnect(W, addr, tok, conn_ok) ==
    LET W1 == IF conn_ok
              THEN CoreSocket_on_connection_created(W, Some(addr), Some(tok))
              ELSE [W EXCEPT !.ok = FALSE]
    IN  IF W1.ok THEN W1 ELSE CoreSocket_schedule_reconnect(W1, tok, addr)

\* The acceptor is added; it is opened when the AcceptorAdded event comes back.
CoreSocket_on_listener_created(W, addr, token) ==
    [EpTakeToken(W, token) EXCEPT
         !.st.acceptors = PushWith(@, EpToken(W, token), [addr |-> addr, state |-> "Added"])]

CoreSocket_bind(W, addr, lst_ok) ==
    IF lst_ok THEN EpNotify(CoreSocket_on_listener_created(W, addr, None), "Bound")
    ELSE EpNotify([W EXCEPT !.ok = FALSE], "NotBound")

CoreSocket_rebind(W, addr, tok, lst_ok) ==
    IF lst_ok THEN CoreSocket_on_listener_created(W, addr, Some(tok))
    ELSE CoreSocket_schedule_rebind([W EXCEPT !.ok = FALSE], tok, addr)

\* handle_evt(AcceptorAdded): the result of open is dropped.
CoreSocket_open_acceptor(W, tok, open_ok) ==
    IF tok \in DOMAIN W.st.acceptors
    THEN [W EXCEPT !.st.acceptors[tok].state = IF open_ok THEN "Open" ELSE "NotOpen"]
    ELSE W

\* handle_cmd(Shutdown(tok)): the acceptor or the pipe is removed and closed.
CoreSocket_shutdown(W, tok) ==
    IF tok \in DOMAIN W.st.acceptors
    THEN EpClose([W EXCEPT !.st.acceptors = PushWithout(@, tok)], tok)
    ELSE IF tok \in DOMAIN W.st.pipes
         THEN EpClose(Protocol_remove_pipe(W, tok), tok)
         ELSE W

CoreSocket_remove_pipe_and_schedule_reconnect(W, tok) ==
    IF tok \in DOMAIN W.st.pipes
    THEN LET pipe == W.st.pipes[tok]
             W1 == EpClose(Protocol_remove_pipe(W, tok), tok)
         IN  IF IsSome(pipe.addr)
             THEN CoreSocket_schedule_reconnect(W1, tok, Unwrap(pipe.addr))
             ELSE W1
    ELSE W

CoreSocket_on_pipe_evt_error(W, tok) ==
    CoreSocket_remove_pipe_and_schedule_reconnect(W, tok)

CoreSocket_pipe_ready(W, tok, events) ==
    IF events \cap {"hup", "error"} # {}
    THEN CoreSocket_remove_pipe_and_schedule_reconnect(W, tok)
    ELSE W

RECURSIVE CoreSocket_on_connections_accepted(_, _)
CoreSocket_on_connections_accepted(W, conns) ==
    IF conns = 0 THEN W
    ELSE LET W1 == CoreSocket_on_connection_created(W, None, None)
         IN  IF W1.ok THEN CoreSocket_on_connections_accepted(W1, conns - 1) ELSE W1

\* A variant that leaves the failed acceptor in the socket.
CoreSocket_on_acceptor_error_keeps(W, tok) ==
    IF tok \in DOMAIN W.st.acceptors
    THEN CoreSocket_schedule_rebind(EpClose(W, tok), tok, W.st.acceptors[tok].addr)
    ELSE W

CoreSocket_on_acceptor_error(W, tok) ==
    IF tok \in DOMAIN W.st.acceptors
    THEN LET acceptor == W.st.acceptors[tok]
             W1 == EpClose([W EXCEPT !.st.acceptors = PushWithout(@, tok)], tok)
         IN  EpSchedule(W1, EpTimer("Rebind", tok, acceptor.addr, CoreDelayMs))
    ELSE W

\* accepted: the connections Acceptor::ready returns, or -1 for an error.
CoreSocket_acceptor_ready(W, tok, accepted) ==
    LET W1 == IF accepted >= 0
              THEN CoreSocket_on_connections_accepted(W, accepted)
              ELSE [W EXCEPT !.ok = FALSE]
    IN  IF W1.ok THEN W1 ELSE CoreSocket_on_acceptor_error(W1, tok)

CoreSocket_ready(W, tok, events, accepted) ==
    IF tok \in DOMAIN W.st.acceptors
    THEN CoreSocket_acceptor_ready(W, tok, accepted)
    ELSE CoreSocket_pipe_ready(W, tok, events)

(********************************* socket.rs *******************************)
Socket_schedule_reconnect(W, tok, addr) ==
    EpSchedule(W, EpTimer("Reconnect", tok, addr, OldDelayMs))

Socket_on_connection_created(W, addr) ==
    EpNotify([Protocol_add_pipe(EpTakeToken(W, None), EpToken(W, None), [addr |-> addr])
                  EXCEPT !.ok = TRUE],
             "Connected")

Socket_on_connection_not_created(W) == EpNotify([W EXCEPT !.ok = FALSE], "NotConnected")

Socket_connect(W, addr, conn_ok) ==
    IF conn_ok THEN Socket_on_connection_created(W, Some(addr))
    ELSE Socket_on_connection_not_created(W)

\* handle_cmd for a command other than Connect: an error is logged.
Socket_handle_cmd_unexpected(W) == W

\* The body is commented out in this revision: Ok(()) and nothing else.
Socket_on_connected(W, addr, tok) == W

Socket_reconnect(W, addr, tok, conn_ok) ==
    IF conn_ok THEN Socket_on_connected(W, Some(addr), tok)
    ELSE Socket_schedule_reconnect([W EXCEPT !.ok = FALSE], tok, addr)

\* The acceptor is opened, then added.
Socket_on_listener_created(W, addr, tok, open_ok) ==
    IF open_ok
    THEN [W EXCEPT !.st.acceptors = PushWith(@, tok, [addr |-> addr, state |-> "Open"])]
    ELSE [W EXCEPT !.ok = FALSE]

Socket_bind(W, addr, lst_ok, open_ok) ==
    LET W1 == IF lst_ok
              THEN Socket_on_listener_created(EpTakeToken(W, None), addr,
                                              EpToken(W, None), open_ok)
              ELSE [W EXCEPT !.ok = FALSE]
    IN  EpNotify(W1, IF W1.ok THEN "Bound" ELSE "NotBound")

Socket_on_acceptor_error(W, tok) ==
    IF tok \in DOMAIN W.st.acceptors
    THEN LET acceptor == W.st.acceptors[tok]
             W1 == EpClose([W EXCEPT !.st.acceptors = PushWithout(@, tok)], tok)
         IN  EpSchedule(W1, EpTimer("Rebind", tok, acceptor.addr, OldDelayMs))
    ELSE W

Socket_rebind(W, addr, tok, lst_ok, open_ok) ==
    LET W1 == IF lst_ok THEN Socket_on_listener_created(W, addr, tok, open_ok)
              ELSE [W EXCEPT !.ok = FALSE]
    IN  IF W1.ok THEN W1 ELSE Socket_on_acceptor_error(W1, tok)

\* The body is commented out in this revision.
Socket_remove_pipe_and_schedule_reconnect(W, tok) == W

Socket_pipe_ready(W, tok, events) ==
    IF events \cap {"hup", "error"} # {}
    THEN Socket_remove_pipe_and_schedule_reconnect(W, tok)
    ELSE W

\* Each accepted connection takes a token and goes to on_connected.
RECURSIVE Socket_on_connections_accepted(_, _)
Socket_on_connections_accepted(W, conns) ==
    IF conns = 0 THEN W
    ELSE Socket_on_connections_accepted(
             Socket_on_connected(EpTakeToken(W, None), None, EpToken(W, None)),
             conns - 1)

Socket_acceptor_ready(W, tok, accepted) ==
    IF accepted >= 0 THEN Socket_on_connections_accepted(W, accepted)
    ELSE Socket_on_acceptor_error([W EXCEPT !.ok = FALSE], tok)

Socket_ready(W, tok, events, accepted) ==
    IF tok \in DOMAIN W.st.acceptors
    THEN Socket_acceptor_ready(W, tok, accepted)
    ELSE Socket_pipe_ready(W, tok, events)

EpGhostNew ==
    [op |-> "new", tok |-> 0, closed |-> {}, lost |-> {}, down |-> {}, notes |-> << >>,
     track |-> FALSE, shut |-> {}]

\* A socket after construction, with no endpoint.
EpIdle ==
    /\ ep = EpNew("core")
    /\ epTimers = << >>
    /\ epNet = [connect |-> TRUE, bind |-> TRUE]
    /\ epGhost = EpGhostNew

(***************************************************************************)
(* The adapter between the sockets and the event loop (ctrl/adapter.rs):   *)
(* URLs, the endpoint collection and the schedule.  A URL is the sequence  *)
(* of its characters; "tcp" stands for the three letters of the scheme.    *)
(***************************************************************************)
UrlChars == {"tcp", "x", ":", "/"}

UrlsUpTo(n) == UNION {[1..k -> UrlChars] : k \in 0..n}

Separator == <<":", "/", "/">>

\* str::find: the index of the first occurrence from i on, 0 for None
RECURSIVE str_find_from(_, _, _)
str_find_from(s, pat, i) ==
    IF i + Len(pat) - 1 > Len(s) THEN 0
    ELSE IF SubSeq(s, i, i + Len(pat) - 1) = pat THEN i
    ELSE str_find_from(s, pat, i + 1)

str_find(s, pat) == str_find_from(s, pat, 1)

\* str::split(pat).collect(): the parts between the occurrences
RECURSIVE str_split(_, _)
str_split(s, pat) ==
    LET i == str_find(s, pat)
    IN  IF i = 0 THEN <<s>>
        ELSE <<SubSeq(s, 1, i - 1)>> \o str_split(SubSeq(s, i + Len(pat), Len(s)), pat)

IoOk(v) == [kind |-> "Ok", val |-> v]

IoErr(e) == [kind |-> "Err", val |-> e]

\* An index out of bounds: the thread of the event loop panics.
Panic == [kind |-> "Panic", val |-> "index out of bounds"]

Ctx_get_transport(scheme) ==
    IF scheme = <<"tcp">> THEN IoOk("Tcp") ELSE IoErr("InvalidInput")

\* SocketEventLoopContext::connect and ::bind: the transport connects or
\* binds (io_ok) or fails with an error of its own.
Ctx_connect(url, io_ok) ==
    LET index == str_find(url, Separator)
    IN  IF index = 0 THEN IoErr("InvalidInput")
        ELSE LET scheme == SubSeq(url, 1, index - 1)
                 remainder == SubSeq(url, index, Len(url))
                 addr == SubSeq(remainder, 4, Len(remainder))
                 transport == Ctx_get_transport(scheme)
             IN  IF transport.kind = "Err" THEN transport
                 ELSE IF io_ok THEN IoOk(addr) ELSE IoErr("Other")

Ctx_bind(url, io_ok) == Ctx_connect(url, io_ok)

\* create_transport(scheme) of the transport module
create_transport(scheme) ==
    IF scheme = <<"tcp">> THEN IoOk("Tcp") ELSE IoErr("InvalidInput")

\* Socket::create_connection and ::create_listener of core/socket.rs
CoreSocket_create_connection(url, io_ok) ==
    LET addr_parts == str_split(url, Separator)
        transport == create_transport(addr_parts[1])
    IN  IF Len(addr_parts) < 2 THEN Panic
        ELSE IF transport.kind = "Err" THEN transport
        ELSE IF io_ok THEN IoOk(addr_parts[2]) ELSE IoErr("Other")

CoreSocket_create_listener(url, io_ok) == CoreSocket_create_connection(url, io_ok)

\* Sequence::next
Sequence_next(ids) == ids + 1

\* A variant of insert_acceptor that numbers the acceptors on their own.
EndpointCollection_insert_acceptor_own_ids(W, acceptor) ==
    LET eid == Cardinality(DOMAIN W.st.endpoints.acceptors) + 1
    IN  [W EXCEPT !.st.endpoints.acceptors = PushWith(@, eid, acceptor),
                  !.res = IoOk(eid)]

AdNew ==
    [endpoints |-> [ids |-> 0, pipes |-> << >>, acceptors |-> << >>],
     schedule |-> [ids |-> 0, items |-> << >>],
     timer |-> [ids |-> 0, live |-> {}]]

EndpointCollection_insert_pipe_controller(W, eid, pipe) ==
    [W EXCEPT !.st.endpoints.pipes = PushWith(@, eid, pipe)]

EndpointCollection_insert_pipe(W, pipe) ==
    LET eid == Sequence_next(W.st.endpoints.ids)
    IN  [EndpointCollection_insert_pipe_controller(
             [W EXCEPT !.st.endpoints.ids = eid], eid, pipe) EXCEPT !.res = IoOk(eid)]

EndpointCollection_remove_pipe(W, eid) ==
    [W EXCEPT !.st.endpoints.pipes = PushWithout(@, eid)]

EndpointCollection_insert_acceptor_controller(W, eid, acceptor) ==
    [W EXCEPT !.st.endpoints.acceptors = PushWith(@, eid, acceptor)]

EndpointCollection_insert_acceptor(W, acceptor) ==
    LET eid == Sequence_next(W.st.endpoints.ids)
    IN  [EndpointCollection_insert_acceptor_controller(
             [W EXCEPT !.st.endpoints.ids = eid], eid, acceptor) EXCEPT !.res = IoOk(eid)]

Network_connect(W, url, io_ok) ==
    LET pipe == Ctx_connect(url, io_ok)
    IN  IF pipe.kind = "Err" THEN [W EXCEPT !.res = pipe]
        ELSE EndpointCollection_insert_pipe(W, "pipe")

Network_reconnect(W, eid, url, io_ok) ==
    LET pipe == Ctx_connect(url, io_ok)
    IN  IF pipe.kind = "Err" THEN [W EXCEPT !.res = pipe]
        ELSE [EndpointCollection_insert_pipe_controller(W, eid, "pipe")
                  EXCEPT !.res = IoOk(0)]

Network_bind(W, url, io_ok) ==
    LET acceptor == Ctx_bind(url, io_ok)
    IN  IF acceptor.kind = "Err" THEN [W EXCEPT !.res = acceptor]
        ELSE EndpointCollection_insert_acceptor(W, "acceptor")

Network_rebind(W, eid, url, io_ok) ==
    LET acceptor == Ctx_bind(url, io_ok)
    IN  IF acceptor.kind = "Err" THEN [W EXCEPT !.res = acceptor]
        ELSE [EndpointCollection_insert_acceptor_controller(W, eid, "acceptor")
                  EXCEPT !.res = IoOk(0)]

\* Schedule::insert and ::remove
Schedule_insert(W, handle) ==
    LET scheduled == Sequence_next(W.st.schedule.ids)
    IN  [W EXCEPT !.st.schedule.ids = scheduled,
                  !.st.schedule.items = PushWith(@, scheduled, handle),
                  !.res = IoOk(scheduled)]

Schedule_remove(W, scheduled) ==
    [W EXCEPT !.st.schedule.items = PushWithout(@, scheduled)]

\* Timer::schedule and ::cancel of the event loop: a timeout that is armed
\* gets a handle of its own; clearing one that is not armed does nothing.
Timer_schedule(W) ==
    LET handle == W.st.timer.ids + 1
    IN  [W EXCEPT !.st.timer.ids = handle, !.st.timer.live = @ \cup {handle},
                  !.res = IoOk(handle)]

Timer_cancel(W, handle) ==
    [W EXCEPT !.st.timer.live = @ \ {handle}, !.cancels = Append(@, handle)]

\* Scheduler::schedule and ::cancel for SocketEventLoopContext
Scheduler_schedule(W, timer_ok) ==
    IF timer_ok THEN LET W1 == Timer_schedule(W) IN Schedule_insert(W1, W1.res.val)
    ELSE [W EXCEPT !.res = IoErr("Other")]

\* A variant that cancels the timer of the handle before looking it up.
Scheduler_cancel_always(W, scheduled) ==
    Schedule_remove(Timer_cancel(W, scheduled), scheduled)

Scheduler_cancel(W, scheduled) ==
    IF scheduled \in DOMAIN W.st.schedule.items
    THEN Timer_cancel(Schedule_remove(W, scheduled), W.st.schedule.items[scheduled])
    ELSE W

AdGhostNew ==
    [impl |-> "adapter", op |-> "new", res |-> IoOk(0), malformed |-> FALSE,
     scheme |-> None, eid |-> 0, vended |-> {}, removed |-> {},
     fired |-> {}, cancelled |-> {}, stale |-> FALSE, cancels |-> << >>]

\* An adapter with no endpoint and nothing scheduled.
AdIdle ==
    /\ ad = AdNew
    /\ adGhost = AdGhostNew

(***************************************************************************)
(* The options of a socket (core/socket.rs, SocketImplOptions).            *)
(***************************************************************************)
OptNew ==
    [send_timeout_ms |-> None, recv_timeout_ms |-> None,
     send_priority |-> 8, recv_priority |-> 8,
     tcp_nodelay |-> FALSE, is_device_item |-> FALSE]

NoOption == [name |-> "none", value |-> 0]

OptGhostNew ==
    [op |-> "new", option |-> NoOption, held |-> FALSE, notes |-> << >>,
     signals |-> << >>, cfg |-> [SendTimeout |-> None, RecvTimeout |-> None],
     eff |-> << >>]

\* time::Duration values and u8 priorities a user may pass
Durations == [secs : {0, 1}, nanos : {0, 999999}]

Priorities == {0, 1, 16, 17}

SocketOptions ==
    [name : {"SendTimeout", "RecvTimeout"}, value : Durations]
        \cup [name : {"SendPriority", "RecvPriority"}, value : Priorities]
        \cup [name : {"TcpNoDelay", "DeviceItem"}, value : BOOLEAN]
        \cup [name : {"Subscribe"}, value : {"topic"}]

duration_to_millis(duration) ==
    LET millis_from_secs == duration.secs * 1000
        millis_from_nanos == duration.nanos \div 1000000
    IN  millis_from_secs + millis_from_nanos

duration_to_timeout(duration) ==
    LET millis == duration_to_millis(duration)
    IN  IF millis = 0 THEN None ELSE Some(millis)

\* A variant that takes 0 for a priority too.
is_valid_priority_from_0(priority) == priority >= 0 /\ priority <= 16

is_valid_priority(priority) == priority >= 1 /\ priority <= 16

\* The setters of SocketImplOptions: the options left and the io::Result.
OptOk(o) == [o |-> o, ok |-> TRUE]

OptErr(o) == [o |-> o, ok |-> FALSE]

SocketImplOptions_set_send_timeout(o, timeout) ==
    OptOk([o EXCEPT !.send_timeout_ms = duration_to_timeout(timeout)])

SocketImplOptions_set_recv_timeout(o, timeout) ==
    OptOk([o EXCEPT !.recv_timeout_ms = duration_to_timeout(timeout)])

SocketImplOptions_set_send_priority(o, priority) ==
    IF is_valid_priority(priority) THEN OptOk([o EXCEPT !.send_priority = priority])
    ELSE OptErr(o)

SocketImplOptions_set_recv_priority(o, priority) ==
    IF is_valid_priority(priority) THEN OptOk([o EXCEPT !.recv_priority = priority])
    ELSE OptErr(o)

SocketImplOptions_set_tcp_nodelay(o, value) == OptOk([o EXCEPT !.tcp_nodelay = value])

\* Socket::set_device_item: the option is stored, the result is the protocol's
CoreSocket_set_device_item(o, value, proto_ok) ==
    [o |-> [o EXCEPT !.is_device_item = value], ok |-> proto_ok]

\* A variant that answers OptionSet as well when the option was refused.
CoreSocket_set_option_twice(o, option, proto_ok) ==
    LET set_res ==
            CASE option.name = "SendPriority" ->
                     SocketImplOptions_set_send_priority(o, option.value)
              [] option.name = "RecvPriority" ->
                     SocketImplOptions_set_recv_priority(o, option.value)
              [] OTHER -> OptOk(o)
    IN  [o |-> set_res.o,
         notes |-> IF set_res.ok THEN <<"OptionSet">> ELSE <<"OptionNotSet", "OptionSet">>]

\* Socket::set_option; an option of the protocol is set, or refused, by the
\* protocol (proto_ok) and leaves the options of the socket alone.
CoreSocket_set_option(o, option, proto_ok) ==
    LET set_res ==
            CASE option.name = "SendTimeout" ->
                     SocketImplOptions_set_send_timeout(o, option.value)
              [] option.name = "RecvTimeout" ->
                     SocketImplOptions_set_recv_timeout(o, option.value)
              [] option.name = "SendPriority" ->
                     SocketImplOptions_set_send_priority(o, option.value)
              [] option.name = "RecvPriority" ->
                     SocketImplOptions_set_recv_priority(o, option.value)
              [] option.name = "TcpNoDelay" ->
                     SocketImplOptions_set_tcp_nodelay(o, option.value)
              [] option.name = "DeviceItem" ->
                     CoreSocket_set_device_item(o, option.value, proto_ok)
              [] OTHER -> [o |-> o, ok |-> proto_ok]
    IN  [o |-> set_res.o,
         notes |-> <<IF set_res.ok THEN "OptionSet" ELSE "OptionNotSet">>]

\* What Socket::send and Socket::recv do, in order: the timeout they ask
\* the event loop for and the call of the protocol with its cancel handle.
EffTimeout(kind, ms) == [eff |-> "timeout", kind |-> kind, ms |-> ms]

EffProtocol(call, handle) == [eff |-> call, handle |-> handle]

\* Socket::send and Socket::recv of core/socket.rs; timer_ok: the event
\* loop takes the timeout.
CoreSocket_send(o, timer_ok) ==
    IF IsSome(o.send_timeout_ms)
    THEN IF timer_ok
         THEN <<EffTimeout("CancelSend", Unwrap(o.send_timeout_ms)),
                EffProtocol("send", Some("CancelSend"))>>
         ELSE << >>
    ELSE <<EffProtocol("send", None)>>

CoreSocket_recv(o, timer_ok) ==
    IF IsSome(o.recv_timeout_ms)
    THEN IF timer_ok
         THEN <<EffTimeout("CancelRecv", Unwrap(o.recv_timeout_ms)),
                EffProtocol("recv", Some("CancelRecv"))>>
         ELSE << >>
    ELSE <<EffProtocol("recv", None)>>

\* A variant that signals Readable whenever the protocol can receive.
CoreSocket_pipe_ready_signals_any(o, can_recv) ==
    IF can_recv THEN <<"Readable">> ELSE << >>

\* Socket::pipe_ready, after protocol.ready: the signal raised, if any
CoreSocket_pipe_ready_signals(o, can_recv) ==
    IF o.is_device_item /\ can_recv THEN <<"Readable">> ELSE << >>

OptIdle ==
    /\ opts = OptNew
    /\ optGhost = OptGhostNew

(***************************************************************************)
(* The acceptor of the TCP transport (transport/tcp/acceptor.rs).  The     *)
(* listener holds the streams that wait to be accepted; accept() hands out *)
(* the first, reports WouldBlock when none waits, or fails.                *)
(***************************************************************************)
AccNew == [pc |-> "idle", backlog |-> << >>, arrived |-> 0, pipes |-> << >>,
           taken |-> << >>, raised |-> << >>, op |-> "new"]

TcpAcceptor_create_pipe(stream) == [stream |-> stream]

\* A variant that puts the pipe of a stream before the ones accepted earlier.
TcpAcceptor_accept_ok_first(a, stream) ==
    [a EXCEPT !.pipes = <<TcpAcceptor_create_pipe(stream)>> \o @]

\* accept, arm Ok((stream, _))
TcpAcceptor_accept_ok(a, stream) ==
    [a EXCEPT !.pipes = Append(@, TcpAcceptor_create_pipe(stream))]

\* accept, arm Err(e) with e.kind() == WouldBlock: the loop is left
TcpAcceptor_accept_would_block(a) ==
    [a EXCEPT !.pc = "idle",
              !.raised = IF Len(a.pipes) > 0
                         THEN Append(@, [evt |-> "Accepted", pipes |-> a.pipes])
                         ELSE @]

\* accept, arm Err(e) of another kind: the loop goes on
TcpAcceptor_accept_error(a) ==
    [a EXCEPT !.raised = Append(@, [evt |-> "Error", pipes |-> << >>])]

\* Acceptor::ready: accept() starts with an empty vector on a readable event
TcpAcceptor_ready(a, events) ==
    IF "readable" \in events
    THEN [a EXCEPT !.pc = "accepting", !.pipes = << >>, !.taken = << >>, !.raised = << >>]
    ELSE [a EXCEPT !.pipes = << >>, !.taken = << >>, !.raised = << >>]

(***************************************************************************)
(* The controllers of the pipes (ctrl/adapter.rs): the commands the socket *)
(* sends through Network and the operation each invokes on its pipe.       *)
(***************************************************************************)
PipeCommands == {"Open", "Close", "Send", "Recv"}

CtlNew == [queue |-> << >>, calls |-> << >>, op |-> "new"]

CtlSignal(kind, eid, cmd) == [kind |-> kind, eid |-> eid, cmd |-> cmd]

\* send_pipe_cmd / send_acceptor_cmd: the signal is put on the bus
Ctx_send_pipe_cmd(c, eid, cmd) ==
    [c EXCEPT !.queue = Append(@, CtlSignal("PipeCmd", eid, cmd))]

Ctx_send_acceptor_cmd(c, eid, cmd) ==
    [c EXCEPT !.queue = Append(@, CtlSignal("AcceptorCmd", eid, cmd))]

\* Network::open, ::close, ::send and ::recv for SocketEventLoopContext
Network_open(c, eid, remote) ==
    IF remote THEN Ctx_send_pipe_cmd(c, eid, "Open")
    ELSE Ctx_send_acceptor_cmd(c, eid, "Open")

Network_close(c, eid, remote) ==
    IF remote THEN Ctx_send_pipe_cmd(c, eid, "Close")
    ELSE Ctx_send_acceptor_cmd(c, eid, "Close")

Network_send(c, eid) == Ctx_send_pipe_cmd(c, eid, "Send")

Network_recv(c, eid) == Ctx_send_pipe_cmd(c, eid, "Recv")

\* PipeController::process and AcceptorController::process: the operation
\* invoked on the endpoint
PipeController_process(cmd) ==
    CASE cmd = "Open" -> "open"
      [] cmd = "Close" -> "close"
      [] cmd = "Send" -> "send"
      [] cmd = "Recv" -> "open"

AcceptorController_process(cmd) ==
    CASE cmd = "Open" -> "open"
      [] cmd = "Close" -> "close"

\* An acceptor and a pipe controller nobody has used.
(***************************************************************************)
(* Survey ids at the width of the code.  A u32 is kept as its two halves   *)
(* of 16 bits, hi and lo, its value being hi * 2^16 + lo.  The protocol    *)
(* above counts in SurvIdBits bits; here the arithmetic of                 *)
(* Surv::next_survey_id and the bytes of Surv::msg_to_raw_msg are those of *)
(* the code.                                                               *)
(***************************************************************************)
U16 == 2 ^ 16

U32(hi, lo) == [hi |-> hi, lo |-> lo]

\* x | 0x80000000
u32_or_top(x) == [x EXCEPT !.hi = IF @ >= U16 \div 2 THEN @ ELSE @ + (U16 \div 2)]

Overflow == [kind |-> "Panic", val |-> "attempt to add with overflow"]

\* x += 1 on a u32: at u32::MAX a build with overflow checks (the default of
\* a debug build) panics, a build without them wraps to 0.
u32_add_one(x, overflow_checks) ==
    CASE x.lo < U16 - 1 -> IoOk(U32(x.hi, x.lo + 1))
      [] x.hi < U16 - 1 -> IoOk(U32(x.hi + 1, 0))
      [] overflow_checks -> Overflow
      [] OTHER -> IoOk(U32(0, 0))

u32_add_one_stuck(x, overflow_checks) == IoOk(x)

\* WriteBytesExt::write_u32::<BigEndian> on a Vec<u8>: four bytes are
\* appended, the most significant first.
write_u32_BigEndian(buf, x) ==
    buf \o <<x.hi \div 256, x.hi % 256, x.lo \div 256, x.lo % 256>>

\* Surv::next_survey_id: the id, and the counter after it; the panic when
\* the addition overflows.
Surv_next_survey_id_u32(seq, overflow_checks) ==
    LET next_id == u32_or_top(seq)
        sum == u32_add_one(seq, overflow_checks)
    IN  IF sum.kind = "Panic" THEN sum
        ELSE IoOk([next_id |-> next_id, survey_id_seq |-> sum.val])

\* Surv::msg_to_raw_msg: the header of the raw message
Surv_msg_to_raw_msg_u32(header, req_id) == write_u32_BigEndian(header, req_id)

SidNew ==
    [pc |-> "new", overflow_checks |-> FALSE, start |-> U32(0, 0),
     survey_id_seq |-> U32(0, 0), sends |-> 0, id |-> None, prev_id |-> None,
     header |-> << >>, panicked |-> FALSE]

TrIdle ==
    /\ acc = AccNew
    /\ ctl = CtlNew
    /\ survId = SidNew

(***************************************************************************)
(* The socket around the protocol (src/socket.rs) and the event loop.      *)
(* A socket is either linked to the other socket by the two wires, or      *)
(* alone: then its peer is arbitrary, what it reads is any frame or        *)
(* nothing, and what it writes is not followed.                            *)
(***************************************************************************)
World(s) ==
    [sock |-> s, st |-> pair[s], timers |-> pairTimers, evt |-> pairEvt[s],
     tx |-> << >>, rx |-> 0, io_err |-> FALSE,
     ans |-> pairGhost[s].ans, fin |-> pairGhost[s].fin]

Inbound(s, linked) == IF linked THEN {pairWire[Peer(s)]} ELSE {<< >>, <<1>>}

\* The state a handler leaves.  The streams of two linked sockets do not fail.
Commit(s, W, linked, sends, recvs) ==
    /\ linked => ~W.io_err
    /\ pair' = [pair EXCEPT ![s] = W.st]
    /\ pairTimers' = W.timers
    /\ pairEvt' = [pairEvt EXCEPT ![s] = W.evt]
    /\ pairWire' = IF linked
                   THEN [pairWire EXCEPT ![s] = @ \o W.tx,
                                         ![Peer(s)] = SubSeq(@, W.rx + 1, Len(@))]
                   ELSE pairWire
    /\ pairGhost' = [pairGhost EXCEPT ![s].ans = W.ans,
                                      ![s].fin = W.fin,
                                      ![s].sends = @ + sends,
                                      ![s].recvs = @ + recvs]
    /\ UNCHANGED pairOpts

\* Socket::send: the CancelSend timeout is armed first, and the protocol gets
\* the action that clears it.
SocketSend(s, linked) ==
    LET msg == pairGhost[s].sends + 1
        W0  == World(s)
    IN  IF IsSome(pairOpts[s].send_timeout_ms)
        THEN \E W1 \in Pair_send(
                 [W0 EXCEPT !.timers = @ \cup {Timer("CancelSend", s, msg)}], msg, msg) :
                 Commit(s, W1, linked, 1, 0)
        ELSE \E W1 \in Pair_send(W0, msg, 0) : Commit(s, W1, linked, 1, 0)

\* Socket::on_send_timeout: an armed CancelSend timeout fires.
SocketOnSendTimeout(s, linked) ==
    \E t \in pairTimers :
        /\ t.kind = "CancelSend" /\ t.sock = s
        /\ Commit(s, Pair_on_send_timeout(
                         Finished([World(s) EXCEPT !.timers = @ \ {t}], t.id), t.id),
                  linked, 0, 0)

\* Socket::recv
SocketRecv(s, linked, counted) ==
    LET id == pairGhost[s].recvs + 1
        W0 == World(s)
    IN  IF IsSome(pairOpts[s].recv_timeout_ms)
        THEN \E W1 \in Pair_recv(
                 [W0 EXCEPT !.timers = @ \cup {Timer("CancelRecv", s, id)}], id) :
                 Commit(s, W1, linked, 0, counted)
        ELSE \E W1 \in Pair_recv(W0, 0) : Commit(s, W1, linked, 0, counted)

\* Socket::on_recv_timeout
SocketOnRecvTimeout(s, linked) ==
    \E t \in pairTimers :
        /\ t.kind = "CancelRecv" /\ t.sock = s
        /\ Commit(s, Pair_on_recv_timeout([World(s) EXCEPT !.timers = @ \ {t}]),
                  linked, 0, 0)

\* Socket::pipe_ready -> protocol.ready(token, events)
SocketPipeReady(s, linked, token, events) ==
    \E inbound \in Inbound(s, linked) :
        \E W1 \in Pair_ready(World(s), token, events, inbound) :
            Commit(s, W1, linked, 0, 0)

\* A new connection: the socket takes the next token of its id sequence and
\* hands the endpoint to the protocol.
SocketAddEndpoint(s) ==
    /\ pairGhost[s].id_seq < MaxToken
    /\ LET token == pairGhost[s].id_seq + 1
           W1 == Pair_add_endpoint(World(s), token)
       IN  /\ pair' = [pair EXCEPT ![s] = W1.st]
           /\ pairGhost' = [pairGhost EXCEPT ![s].id_seq = token]
    /\ UNCHANGED <<pairOpts, pairTimers, pairEvt, pairWire>>

SocketRemoveEndpoint(s) ==
    \E token \in Tokens :
        LET W1 == Pair_remove_endpoint(World(s), token)
        IN  /\ pair' = [pair EXCEPT ![s] = W1.st]
            /\ UNCHANGED <<pairOpts, pairTimers, pairEvt, pairWire, pairGhost>>

TimeoutOptions == {None, Some(100)}
NoTimeouts == [send_timeout_ms |-> None, recv_timeout_ms |-> None]

InitOtherProtocols ==
    /\ pair = [s \in Sockets |-> PairNew]
    /\ pairTimers = {}
    /\ pairEvt = [s \in Sockets |-> << >>]
    /\ pairWire = [s \in Sockets |-> << >>]
    /\ pairGhost = [s \in Sockets |->
                       [sends |-> 0, recvs |-> 0, id_seq |-> 0,
                        ans |-> [m \in Msgs |-> 0], fin |-> {},
                        taken |-> 0, acked |-> << >>, recvd |-> << >>]]
    /\ pairUser = [s \in Sockets |-> "none"]
    /\ PushIdle
    /\ PubIdle
    /\ FqIdle
    /\ OptIdle
    /\ TrIdle

InitProtocols == InitOtherProtocols /\ SurvIdle

InitPairCommon == InitProtocols /\ EpIdle /\ AdIdle

(***************************************************************************)
(* SpecPair: one PAIR socket, its options set, facing an arbitrary peer.   *)
(* Requests reach the socket whenever the user issues them.                *)
(***************************************************************************)

InitPair ==
    /\ InitPairCommon
    /\ \E st \in TimeoutOptions, rt \in TimeoutOptions :
           pairOpts = [s \in Sockets |->
                          IF s = "A" THEN [send_timeout_ms |-> st, recv_timeout_ms |-> rt]
                          ELSE NoTimeouts]

Ops(s) == pairGhost[s].sends + pairGhost[s].recvs

PairSend == Ops("A") < MaxOps /\ SocketSend("A", FALSE) /\ UNCHANGED <<pairUser, pushVars, pubVars, extVars>>
PairRecv == Ops("A") < MaxOps /\ SocketRecv("A", FALSE, 1) /\ UNCHANGED <<pairUser, pushVars, pubVars, extVars>>
PairOnSendTimeout == SocketOnSendTimeout("A", FALSE) /\ UNCHANGED <<pairUser, pushVars, pubVars, extVars>>
PairOnRecvTimeout == SocketOnRecvTimeout("A", FALSE) /\ UNCHANGED <<pairUser, pushVars, pubVars, extVars>>
PairReady == \E token \in Tokens, events \in EventSets :
                 SocketPipeReady("A", FALSE, token, events)
                 /\ UNCHANGED <<pairUser, pushVars, pubVars, extVars>>
PairAddEndpoint == SocketAddEndpoint("A") /\ UNCHANGED <<pairUser, pushVars, pubVars, extVars>>
PairRemoveEndpoint == SocketRemoveEndpoint("A") /\ UNCHANGED <<pairUser, pushVars, pubVars, extVars>>

NextPair ==
    \/ PairSend
    \/ PairOnSendTimeout
    \/ PairRecv
    \/ PairOnRecvTimeout
    \/ PairReady
    \/ PairAddEndpoint
    \/ PairRemoveEndpoint

SpecPair == InitPair /\ [][NextPair]_vars

(***************************************************************************)
(* SpecPairLink: two PAIR sockets connected to each other.  A sends, B     *)
(* receives; each user waits for the reply to a request before the next    *)
(* one.  B keeps receiving and the event loop keeps delivering readiness.  *)
(***************************************************************************)
InitPairLink ==
    /\ InitPairCommon
    /\ \E st \in TimeoutOptions, rt \in TimeoutOptions :
           pairOpts = [s \in Sockets |->
                          IF s = "A" THEN [send_timeout_ms |-> st, recv_timeout_ms |-> None]
                          ELSE [send_timeout_ms |-> None, recv_timeout_ms |-> rt]]

LinkConnect(s) ==
    /\ ~IsSome(pair[s].pipe)
    /\ SocketAddEndpoint(s)
    /\ UNCHANGED <<pairUser, pushVars, pubVars, extVars>>

LinkSend ==
    /\ pairUser["A"] = "none"
    /\ pairGhost["A"].sends < MaxLinkMsgs
    /\ SocketSend("A", TRUE)
    /\ pairUser' = [pairUser EXCEPT !["A"] = "send"]
    /\ UNCHANGED <<pushVars, pubVars, extVars>>

LinkRecv ==
    /\ pairUser["B"] = "none"
    /\ Len(pairGhost["B"].recvd) < MaxLinkMsgs
    /\ SocketRecv("B", TRUE, 0)
    /\ pairUser' = [pairUser EXCEPT !["B"] = "recv"]
    /\ UNCHANGED <<pushVars, pubVars, extVars>>

\* The user takes the reply to a request from the channel.  Replies carry no
\* request id: the k-th reply answers the k-th request, so MsgSent answers
\* the oldest send not answered yet; MsgRecv hands over a message.
LinkTakeReply(s) ==
    /\ pairUser[s] # "none"
    /\ Len(pairEvt[s]) > 0
    /\ LET e == Head(pairEvt[s])
       IN  pairGhost' = [pairGhost EXCEPT
               ![s].taken = IF e.evt \in {"MsgSent", "MsgNotSent"} THEN @ + 1 ELSE @,
               ![s].acked = IF e.evt = "MsgSent" THEN Append(@, pairGhost[s].taken + 1) ELSE @,
               ![s].recvd = IF e.evt = "MsgRecv" THEN Append(@, e.msg) ELSE @]
    /\ pairEvt' = [pairEvt EXCEPT ![s] = Tail(@)]
    /\ pairUser' = [pairUser EXCEPT ![s] = "none"]
    /\ UNCHANGED <<pair, pairOpts, pairTimers, pairWire, pushVars, pubVars, extVars>>

LinkOnSendTimeout == SocketOnSendTimeout("A", TRUE) /\ UNCHANGED <<pairUser, pushVars, pubVars, extVars>>
LinkOnRecvTimeout == SocketOnRecvTimeout("B", TRUE) /\ UNCHANGED <<pairUser, pushVars, pubVars, extVars>>
\* The event loop reports readiness of the connection's pipe.
LinkReady(s, events) ==
    /\ IsSome(pair[s].pipe)
    /\ SocketPipeReady(s, TRUE, Unwrap(pair[s].pipe).token, events)
    /\ UNCHANGED <<pairUser, pushVars, pubVars, extVars>>

NextPairLink ==
    \/ \E s \in Sockets : LinkConnect(s)
    \/ LinkSend
    \/ LinkRecv
    \/ \E s \in Sockets : LinkTakeReply(s)
    \/ LinkOnSendTimeout
    \/ LinkOnRecvTimeout
    \/ \E s \in Sockets, events \in EventSets : LinkReady(s, events)

\* B keeps receiving, and the event loop keeps reporting readable streams.
LinkFairness ==
    /\ WF_vars(\E s \in Sockets : LinkConnect(s))
    /\ WF_vars(LinkRecv)
    /\ WF_vars(LinkTakeReply("B"))
    /\ WF_vars(LinkReady("B", {"readable"}))

SpecPairLink == InitPairLink /\ [][NextPairLink]_vars /\ LinkFairness

(***************************************************************************)
(* SpecPairLinkAny: the same two sockets, A's user also issuing a send     *)
(* before the previous one was answered, which Pair::send accepts.         *)
(***************************************************************************)
LinkSendOverlapped ==
    /\ pairUser["A"] = "send"
    /\ pairGhost["A"].sends < MaxLinkMsgs
    /\ SocketSend("A", TRUE)
    /\ UNCHANGED <<pairUser, pushVars, pubVars, extVars>>

NextPairLinkAny ==
    \/ \E s \in Sockets : LinkConnect(s)
    \/ LinkSend
    \/ LinkSendOverlapped
    \/ LinkRecv
    \/ \E s \in Sockets : LinkTakeReply(s)
    \/ LinkOnSendTimeout
    \/ LinkOnRecvTimeout
    \/ \E s \in Sockets, events \in EventSets : LinkReady(s, events)

SpecPairLinkAny == InitPairLink /\ [][NextPairLinkAny]_vars /\ LinkFairness

(***************************************************************************)
(* SpecPush: one PUSH socket, its pipes and the readiness events of the    *)
(* event loop.                                                             *)
(***************************************************************************)
PushWorld ==
    [st |-> push, evt |-> pushEvt, acc |-> pushGhost.acc, cnt |-> pushGhost.cnt]

\* The messages that two pipes or more keep pending at once; the record keeps
\* the latest such message (multi).
PushPendingOnSeveral(pipes) ==
    {m \in PushMsgs :
        Cardinality({t \in DOMAIN pipes : pipes[t].pending_send = Some(m)}) >= 2}

PushCommit(W, sends, id_seq) ==
    /\ push' = W.st
    /\ pushEvt' = W.evt
    /\ pushGhost' = [pushGhost EXCEPT
           !.acc = W.acc, !.cnt = W.cnt,
           !.sends = @ + sends, !.id_seq = id_seq,
           !.multi = IF PushPendingOnSeveral(W.st.pipes) = {} THEN @
                     ELSE CHOOSE m \in PushPendingOnSeveral(W.st.pipes) :
                              \A n \in PushPendingOnSeveral(W.st.pipes) : n <= m]

PushAddPipe ==
    /\ pushGhost.id_seq < MaxToken
    /\ LET token == pushGhost.id_seq + 1
       IN  \E order \in IterOrders(DOMAIN push.pipes \cup {token}) :
               PushCommit(Push_add_pipe(PushWorld, token, order), 0, token)
    /\ UNCHANGED <<trVars, pairVars, pubVars, extVars>>

PushRemovePipe ==
    /\ \E token \in DOMAIN push.pipes :
           \E order \in IterOrders(DOMAIN push.pipes \ {token}) :
               PushCommit(Push_remove_pipe(PushWorld, token, order), 0, pushGhost.id_seq)
    /\ UNCHANGED <<trVars, pairVars, pubVars, extVars>>

PushSend ==
    /\ pushGhost.sends < MaxPushMsgs
    /\ \E W1 \in Push_send(PushWorld, pushGhost.sends + 1) :
           PushCommit(W1, 1, pushGhost.id_seq)
    /\ UNCHANGED <<trVars, pairVars, pubVars, extVars>>

PushReady ==
    /\ \E token \in Tokens, events \in EventSets :
           \E W1 \in Push_ready(PushWorld, token, events) :
               PushCommit(W1, 0, pushGhost.id_seq)
    /\ UNCHANGED <<trVars, pairVars, pubVars, extVars>>

InitPush ==
    /\ InitPairCommon
    /\ pairOpts = [s \in Sockets |-> NoTimeouts]

NextPush ==
    \/ PushAddPipe /\ UNCHANGED pushLb
    \/ PushRemovePipe /\ UNCHANGED pushLb
    \/ PushSend /\ UNCHANGED pushLb
    \/ PushReady /\ UNCHANGED pushLb

SpecPush == InitPush /\ [][NextPush]_vars

(***************************************************************************)
(* SpecPushLb: the PUSH socket, with the record of which pipe was given    *)
(* the last message and which pipes have been send-ready ever since        *)
(* without being given one.                                                *)
(***************************************************************************)
\* The pipes given a message in this step.
PushChosen == UNION {pushGhost'.acc[m] \ pushGhost.acc[m] : m \in PushMsgs}

PushLbStep ==
    pushLb' =
        IF PushChosen = {}
        THEN [pushLb EXCEPT !.waiting = @ \cap PushReadyTokens(push'.pipes)]
        ELSE [last |-> CHOOSE p \in PushChosen : TRUE,
              waiting |-> (PushReadyTokens(push.pipes) \cap PushReadyTokens(push'.pipes))
                              \ PushChosen]

NextPushLb ==
    \/ PushAddPipe /\ PushLbStep
    \/ PushRemovePipe /\ PushLbStep
    \/ PushSend /\ PushLbStep
    \/ PushReady /\ PushLbStep

SpecPushLb == InitPush /\ [][NextPushLb]_vars

(***************************************************************************)
(* SpecPub: one PUB socket.  A request comes with the handle of the        *)
(* timeout the socket scheduled for it, or with none; a timeout handler    *)
(* can still be called after its timeout was cancelled, when the timeout   *)
(* had already expired in the event loop.                                  *)
(***************************************************************************)
PubWorld ==
    [st |-> publ, replies |-> pubReplies, can_send |-> pubCtx.can_send,
     sched |-> pubCtx.sched, sent_to |-> pubCtx.sent_to]

\* The attached pipes that have signalled on_send_ready since they were
\* attached and since the last message was dispatched to them.
PubFresh(op, eid) ==
    CASE op = "on_send_ready" ->
             IF eid \in publ.pipes THEN pubGhost.fresh \cup {eid} ELSE pubGhost.fresh
      [] op = "send"           -> pubGhost.fresh \ (publ.bc \cap publ.pipes)
      [] op \in {"add_pipe", "remove_pipe"} -> pubGhost.fresh \ {eid}
      [] OTHER                 -> pubGhost.fresh

PubCommit(W, op, timeout, eid) ==
    /\ publ' = W.st
    /\ pubReplies' = W.replies
    /\ pubCtx' = [can_send |-> W.can_send, sched |-> W.sched, sent_to |-> W.sent_to]
    /\ pubGhost' = [ops |-> pubGhost.ops + 1, op |-> op, timeout |-> timeout,
                    seen |-> IF op = "add_pipe" THEN pubGhost.seen \cup {eid}
                             ELSE pubGhost.seen,
                    fresh |-> PubFresh(op, eid)]
    /\ UNCHANGED <<trVars, pairVars, pushVars, extVars>>

\* The timeout handles a request can come with: none, or the one scheduled now.
PubTimeouts == {None, Some(pubGhost.ops + 1)}

PubScheduled(W, timeout) ==
    IF IsSome(timeout) THEN [W EXCEPT !.sched = @ \cup {Unwrap(timeout)}] ELSE W

\* A new or re-established connection: a reconnect keeps the endpoint id.
PubAddPipe ==
    /\ pubGhost.ops < MaxPubOps
    /\ \E eid \in Eids \ publ.pipes :
           PubCommit(Pub_add_pipe(PubWorld, eid), "add_pipe", None, eid)

PubRemovePipe ==
    /\ pubGhost.ops < MaxPubOps
    /\ \E eid \in publ.pipes :
           PubCommit(Pub_remove_pipe(PubWorld, eid), "remove_pipe", None, eid)

PubSend ==
    /\ pubGhost.ops < MaxPubOps
    /\ \E timeout \in PubTimeouts :
           PubCommit(Pub_send(PubScheduled(PubWorld, timeout), pubGhost.ops + 1, timeout),
                     "send", timeout, 0)

PubOnSendTimeout ==
    /\ pubGhost.ops < MaxPubOps
    /\ PubCommit(Pub_on_send_timeout(PubWorld), "on_send_timeout", None, 0)

\* A pipe signals that it can send; the signal of a pipe that was removed
\* meanwhile is still delivered.
PubOnSendReady ==
    /\ pubGhost.ops < MaxPubOps
    /\ \E eid \in pubGhost.seen :
           PubCommit(Pub_on_send_ready(PubWorld, eid), "on_send_ready", None, eid)

PubRecv ==
    /\ pubGhost.ops < MaxPubOps
    /\ \E timeout \in PubTimeouts :
           PubCommit(Pub_recv(PubScheduled(PubWorld, timeout), timeout), "recv", timeout, 0)

PubOnRecvTimeout ==
    /\ pubGhost.ops < MaxPubOps
    /\ PubCommit(Pub_on_recv_timeout(PubWorld), "on_recv_timeout", None, 0)

InitPub ==
    /\ InitPairCommon
    /\ pairOpts = [s \in Sockets |-> NoTimeouts]

NextPub ==
    \/ PubAddPipe
    \/ PubRemovePipe
    \/ PubSend
    \/ PubOnSendTimeout
    \/ PubOnSendReady
    \/ PubRecv
    \/ PubOnRecvTimeout

SpecPub == InitPub /\ [][NextPub]_vars

(***************************************************************************)
(* SpecFq: a protocol receiving through the fair queue.  The protocol      *)
(* keeps one recv request: held while no pipe is active, receiving once    *)
(* the active pipe was asked; the pipe that was asked delivers its message *)
(* later, as a pipe event.  Readiness events come in any order.            *)
(***************************************************************************)
FqWorld ==
    [st |-> fq, timers |-> fqTimers, reply |-> fqOp.reply, ans |-> fqOp.ans, res |-> FALSE,
     add_res |-> "none"]

\* The pipes that stayed in the fair queue, activated, since the last delivery
\* (since); the pipe of that delivery (last), while it is attached.
FqSince(W, step, by) ==
    IF step = "on_recv_by_pipe" THEN W.st.fair_queue.active \ {by}
    ELSE fqGhost.since \cap W.st.fair_queue.active

FqCommit(W, phase, timeout, step, by) ==
    /\ fq' = W.st
    /\ fqTimers' = W.timers
    /\ fqOp' = [phase |-> phase, timeout |-> timeout, reply |-> W.reply, ans |-> W.ans]
    /\ fqGhost' = [last |-> CASE step = "on_recv_by_pipe" -> by
                              [] step = "remove_pipe" /\ by = fqGhost.last -> 0
                              [] OTHER -> fqGhost.last,
                   since |-> FqSince(W, step, by),
                   rot |-> step = "on_recv_by_pipe" /\ fqGhost.since # {}]
    /\ UNCHANGED <<trVars, pairVars, pushVars, pubVars, survVars, epVars, adVars, optVars>>

\* The phase of the request once recv was tried on the active pipe.
FqPhaseAfterRecv(W) == IF W.res THEN "receiving" ELSE "held"

\* The timeout a recv request comes with: none, or the one the socket armed.
FqTimeouts == {None, Some("CancelRecv")}

FqAddPipe ==
    \E tok \in FqTokens \ DOMAIN fq.pipes :
        FqCommit(Wfq_add_pipe(FqWorld, tok, FqPipeNew),
                 fqOp.phase, fqOp.timeout, "add_pipe", tok)

FqOnPipeOpened ==
    \E tok \in DOMAIN fq.pipes :
        /\ tok \notin {fq.fair_queue.items[i] : i \in 1..Len(fq.fair_queue.items)}
        /\ FqCommit(Wfq_on_pipe_opened(FqWorld, tok),
                    fqOp.phase, fqOp.timeout, "on_pipe_opened", tok)

\* A pipe is lost; a request it was carrying is held again.
FqRemovePipeOf(tok) ==
    FqCommit(Wfq_remove_pipe(FqWorld, tok),
             IF fqOp.phase = "receiving" /\ fq.pipes[tok].recv_pending
             THEN "held" ELSE fqOp.phase,
             fqOp.timeout, "remove_pipe", tok)

FqRemovePipe == \E tok \in DOMAIN fq.pipes : FqRemovePipeOf(tok)

\* A readiness event of a pipe; a held request is tried again.
FqReady ==
    \E tok \in DOMAIN fq.pipes, events \in {{"readable"}, {"writable"}} :
        LET W == Wfq_ready(FqWorld, tok, events)
        IN  IF fqOp.phase = "held"
            THEN FqCommit(Wfq_recv(W), FqPhaseAfterRecv(Wfq_recv(W)),
                          fqOp.timeout, "ready", tok)
            ELSE FqCommit(W, fqOp.phase, fqOp.timeout, "ready", tok)

\* The user's recv request, with or without a timeout armed by the socket.
FqRecv ==
    /\ fqOp.phase = "idle"
    /\ \E timeout \in FqTimeouts :
           LET W0 == [FqWorld EXCEPT
                          !.timers = IF IsSome(timeout) THEN @ \cup {Unwrap(timeout)} ELSE @,
                          !.ans = 0]
               W  == Wfq_recv(W0)
           IN  FqCommit(W, FqPhaseAfterRecv(W), timeout, "recv", 0)

\* The pipe that was asked has read a whole message.
FqOnRecvByPipe ==
    \E tok \in DOMAIN fq.pipes :
        /\ fq.pipes[tok].recv_pending
        /\ LET W0 == [FqWorld EXCEPT !.st.pipes[tok].recv_pending = FALSE]
           IN  FqCommit(Wfq_on_recv_by_pipe(W0, tok, fqOp.timeout),
                        "idle", None, "on_recv_by_pipe", tok)

\* An armed recv timeout fires.
FqOnRecvTimeout ==
    \E h \in fqTimers :
        LET W0 == [FqWorld EXCEPT !.timers = @ \ {h}]
        IN  FqCommit(Wfq_on_recv_timeout(W0), "idle", None, "on_recv_timeout", 0)

InitFq ==
    /\ InitPairCommon
    /\ pairOpts = [s \in Sockets |-> NoTimeouts]

NextFq ==
    \/ FqAddPipe
    \/ FqOnPipeOpened
    \/ FqRemovePipe
    \/ FqReady
    \/ FqRecv
    \/ FqOnRecvByPipe
    \/ FqOnRecvTimeout

SpecFq == InitFq /\ [][NextFq]_vars

(***************************************************************************)
(* SpecFqPipes: the pipes of a protocol with a fair queue, each over a     *)
(* connection of its own; the socket adds a pipe under any token, pipes    *)
(* are opened, become ready and are removed.  No recv is requested.        *)
(***************************************************************************)
FqConns == 1..MaxToken

\* on_connection_created: protocol.add_pipe(token, pipe)
FqAddPipeOf(tok, conn) ==
    FqCommit(Wfq_add_pipe(FqWorld, tok, FqPipeOf(conn)),
             fqOp.phase, fqOp.timeout, "add_pipe", tok)

FqAddPipeAny ==
    \E tok \in FqTokens, conn \in FqConns :
        /\ fqOp.phase = "idle"
        /\ FqAddPipeOf(tok, conn)

NextFqPipes ==
    \/ FqAddPipeAny
    \/ FqOnPipeOpened
    \/ FqRemovePipe
    \/ FqReady

SpecFqPipes == InitFq /\ [][NextFqPipes]_vars

(***************************************************************************)
(* SpecSurv: one SURVEYOR socket with its send and recv timeouts set.  A   *)
(* send arms the survey deadline and the send timeout, a recv the recv     *)
(* timeout; a timeout may never fire.  The pipes read any raw message: a   *)
(* reply to the                                                            *)
(* current survey, to an earlier one, to none, or one too short to hold an *)
(* id.  A pipe whose ready fails is removed by the socket.                 *)
(***************************************************************************)
SurvWorld ==
    [st |-> surv, timers |-> survTimers, sreply |-> survEvt.sreply,
     reply |-> survEvt.reply, ans |-> 0, tx_id |-> survGhost.last_id,
     io_err |-> FALSE, fin |-> survGhost.fin, acked |-> None, sans |-> 0]

SurvCommit(W, step) ==
    /\ surv' = W.st
    /\ survTimers' = W.timers
    /\ survEvt' = [sreply |-> W.sreply, reply |-> W.reply, ans |-> W.ans]
    /\ survGhost' =
           [surveys |-> IF step = "send" THEN survGhost.surveys + 1 ELSE survGhost.surveys,
            last_id |-> W.tx_id,
            old_ids |-> IF step = "send" /\ survGhost.surveys > 0
                        THEN survGhost.old_ids \cup {survGhost.last_id}
                        ELSE survGhost.old_ids,
            expired |-> CASE step = "send" -> FALSE
                          [] step = "on_survey_timeout" -> TRUE
                          [] OTHER -> survGhost.expired,
            recv_open |-> IF W.ans > 0 THEN FALSE
                          ELSE survGhost.recv_open \/ step = "recv",
            track |-> survGhost.track,
            fin |-> IF survGhost.track THEN W.fin ELSE {},
            acked |-> IF survGhost.track THEN W.acked ELSE None,
            sans |-> IF survGhost.track THEN W.sans ELSE 0,
            acks |-> IF survGhost.track /\ IsSome(W.acked)
                     THEN survGhost.acks \cup {Unwrap(W.acked).sid}
                     ELSE survGhost.acks]
    /\ UNCHANGED <<trVars, pairVars, pushVars, pubVars, fqVars, epVars, adVars, optVars>>

\* The cancel actions a request can come with.
SurvCancels(kind) == {kind}

SurvArmed(W, action) == IF action = "none" THEN W ELSE [W EXCEPT !.timers = @ \cup {action}]

\* The raw messages a pipe can read.
SurvInbound ==
    {<< >>, <<ShortMsg>>, <<RawMsg(0)>>}
        \cup {<<RawMsg(i)>> : i \in survGhost.old_ids}
        \cup (IF survGhost.surveys > 0 THEN {<<RawMsg(survGhost.last_id)>>} ELSE {})

SurvAddEndpoint ==
    \E token \in SurvTokens \ DOMAIN surv.pipes :
        SurvCommit(Surv_add_endpoint(SurvWorld, token), "add_endpoint")

SurvRemoveEndpoint ==
    \E token \in DOMAIN surv.pipes :
        SurvCommit(Surv_remove_endpoint(SurvWorld, token), "remove_endpoint")

SurvSend ==
    /\ survGhost.surveys < MaxSurveys
    /\ \E action \in SurvCancels("CancelSend") :
       \E W \in Surv_send(SurvArmed(SurvArmed(SurvWorld, action), "SurveyTimeout"),
                          0, action) :
           SurvCommit(W, "send")

SurvOnSendTimeout ==
    /\ "CancelSend" \in survTimers
    /\ SurvCommit(Surv_on_send_timeout([SurvWorld EXCEPT !.timers = @ \ {"CancelSend"}]),
                  "on_send_timeout")

SurvRecv ==
    \E action \in SurvCancels("CancelRecv") :
    \E W \in Surv_recv(SurvArmed(SurvWorld, action), action) :
        SurvCommit(W, "recv")

SurvOnRecvTimeout ==
    /\ "CancelRecv" \in survTimers
    /\ SurvCommit(Surv_on_recv_timeout([SurvWorld EXCEPT !.timers = @ \ {"CancelRecv"}]),
                  "on_recv_timeout")

\* Socket::on_survey_timeout
SurvOnSurveyTimeout ==
    /\ "SurveyTimeout" \in survTimers
    /\ SurvCommit(Surv_on_survey_timeout(
                      [SurvWorld EXCEPT !.timers = @ \ {"SurveyTimeout"}]),
                  "on_survey_timeout")

SurvReady ==
    \E token \in DOMAIN surv.pipes, events \in {{"readable"}, {"writable"}} :
    \E inbound \in IF "readable" \in events THEN SurvInbound ELSE {<< >>} :
    \E W \in Surv_ready(SurvWorld, token, events, inbound) :
        SurvCommit(IF W.io_err THEN Surv_remove_endpoint(W, token) ELSE W, "ready")

InitSurv ==
    /\ InitPairCommon
    /\ pairOpts = [s \in Sockets |-> NoTimeouts]

NextSurv ==
    \/ SurvAddEndpoint
    \/ SurvRemoveEndpoint
    \/ SurvSend
    \/ SurvOnSendTimeout
    \/ SurvRecv
    \/ SurvOnRecvTimeout
    \/ SurvOnSurveyTimeout
    \/ SurvReady

SpecSurv == InitSurv /\ [][NextSurv]_vars

(***************************************************************************)
(* SpecSurvSend: the send side of a SURVEYOR socket with several pipes:    *)
(* pipes come and go, surveys are sent, pipes become writable and the send *)
(* timeout fires.                                                          *)
(***************************************************************************)
SurvSendTokens == 1..(MaxSurvPipes + 1)

SurvSendAddEndpoint ==
    \E token \in SurvSendTokens \ DOMAIN surv.pipes :
        SurvCommit(Surv_add_endpoint(SurvWorld, token), "add_endpoint")

SurvReadyWritable ==
    \E token \in DOMAIN surv.pipes :
    \E W \in Surv_ready(SurvWorld, token, {"writable"}, << >>) :
        SurvCommit(IF W.io_err THEN Surv_remove_endpoint(W, token) ELSE W, "ready")

NextSurvSend ==
    \/ SurvSendAddEndpoint
    \/ SurvRemoveEndpoint
    \/ SurvSend
    \/ SurvOnSendTimeout
    \/ SurvReadyWritable

InitSurvSend ==
    /\ InitOtherProtocols
    /\ SurvStart(TRUE)
    /\ EpIdle
    /\ AdIdle
    /\ pairOpts = [s \in Sockets |-> NoTimeouts]

SpecSurvSend == InitSurvSend /\ [][NextSurvSend]_vars

(***************************************************************************)
(* SpecTimeouts: a socket with timeouts, either the PAIR socket of         *)
(* SpecPair or the protocol receiving through the fair queue of SpecFq.    *)
(* The one that is not followed stays as constructed.                      *)
(***************************************************************************)
PairAtRest ==
    /\ pair = [s \in Sockets |-> PairNew]
    /\ pairTimers = {}
    /\ \A s \in Sockets :
           pairGhost[s].sends = 0 /\ pairGhost[s].recvs = 0 /\ pairGhost[s].id_seq = 0

\* Both timeouts of the socket are set (set_option, socket.rs:346-351).
InitTimeouts ==
    /\ InitPairCommon
    /\ pairOpts = [s \in Sockets |->
                      IF s = "A" THEN [send_timeout_ms |-> Some(100), recv_timeout_ms |-> Some(100)]
                      ELSE NoTimeouts]

PairWithTimeouts == FqIdle /\ NextPair

FqWithTimeouts == PairAtRest /\ NextFq

NextTimeouts ==
    \/ PairWithTimeouts
    \/ FqWithTimeouts

SpecTimeouts == InitTimeouts /\ [][NextTimeouts]_vars

(***************************************************************************)
(* SpecEp: one socket of either revision, its endpoints and its Reconnect  *)
(* and Rebind timers.  Connecting and binding succeed or fail as the       *)
(* network allows; pipes and acceptors fail at any time.                   *)
(***************************************************************************)
EpWorld == [st |-> ep, timers |-> epTimers, ok |-> TRUE, closed |-> {}, notes |-> << >>]

EpIsCore == ep.rev = "core"

\* The tokens the socket has handed out.
EpIssued == 1..ep.id_seq

EpWithoutTimer(i) == SubSeq(epTimers, 1, i - 1) \o SubSeq(epTimers, i + 1, Len(epTimers))

\* Pipes the step added to the protocol, acceptors it left open.
EpAddedPipes(W) == {t \in DOMAIN W.st.pipes : t \notin DOMAIN ep.pipes}
EpOpenAcceptors(W) == {t \in DOMAIN W.st.acceptors : W.st.acceptors[t].state = "Open"}

\* A dialed pipe of the protocol, an open acceptor of the socket.
EpDialed(tok) == tok \in DOMAIN ep.pipes /\ IsSome(ep.pipes[tok].addr)
EpAccepting(tok) == tok \in DOMAIN ep.acceptors /\ ep.acceptors[tok].state = "Open"

\* The state a handler leaves.  lost: dialed pipes reported lost and not
\* replaced since; down: acceptors that failed and are not open again.
EpCommit(W, op, tok, lost, down) ==
    /\ ep' = W.st
    /\ epTimers' = W.timers
    /\ epGhost' = [op |-> op, tok |-> tok, closed |-> W.closed,
                   lost |-> (epGhost.lost \cup lost) \ EpAddedPipes(W),
                   down |-> (epGhost.down \cup down) \ EpOpenAcceptors(W),
                   notes |-> W.notes,
                   track |-> epGhost.track,
                   shut |-> IF epGhost.track /\ op = "shutdown"
                            THEN epGhost.shut \cup {tok} ELSE epGhost.shut]
    /\ UNCHANGED <<epNet, trVars, pairVars, pushVars, pubVars, fqVars, survVars, adVars, optVars>>

\* handle_cmd(Connect(addr))
EpConnect ==
    \E addr \in Urls :
        /\ ep.id_seq < MaxToken
        /\ EpCommit(IF EpIsCore THEN CoreSocket_connect(EpWorld, addr, epNet.connect)
                    ELSE Socket_connect(EpWorld, addr, epNet.connect),
                    "connect", 0, {}, {})

\* handle_cmd(Bind(addr))
EpBind ==
    \E addr \in Urls, open_ok \in BOOLEAN :
        /\ ep.id_seq < MaxToken
        /\ EpIsCore => open_ok
        /\ EpCommit(IF EpIsCore THEN CoreSocket_bind(EpWorld, addr, epNet.bind)
                    ELSE Socket_bind(EpWorld, addr, epNet.bind, open_ok),
                    "bind", 0, {}, {})

\* handle_cmd(Shutdown(tok))
EpShutdown ==
    \E tok \in EpIssued :
        EpCommit(IF EpIsCore THEN CoreSocket_shutdown(EpWorld, tok)
                 ELSE Socket_handle_cmd_unexpected(EpWorld),
                 "shutdown", tok, {}, {})

\* handle_evt(AcceptorAdded(tok)), core/socket.rs only
EpOpenAcceptor ==
    \E tok \in DOMAIN ep.acceptors, open_ok \in BOOLEAN :
        /\ EpIsCore
        /\ ep.acceptors[tok].state = "Added"
        /\ EpCommit(CoreSocket_open_acceptor(EpWorld, tok, open_ok), "open_acceptor", tok, {}, {})

\* on_pipe_evt(tok, Error), core/socket.rs only
EpPipeError ==
    \E tok \in EpIssued :
        /\ EpIsCore
        /\ tok \notin DOMAIN ep.acceptors
        /\ EpCommit(CoreSocket_on_pipe_evt_error(EpWorld, tok), "pipe_error", tok,
                    IF EpDialed(tok) THEN {tok} ELSE {}, {})

\* ready(tok, events) for a pipe
EpPipeReady ==
    \E tok \in EpIssued, events \in EpEventSets :
        /\ tok \notin DOMAIN ep.acceptors
        /\ EpCommit(IF EpIsCore THEN CoreSocket_ready(EpWorld, tok, events, 0)
                    ELSE Socket_ready(EpWorld, tok, events, 0),
                    IF events \cap {"hup", "error"} # {} THEN "pipe_lost" ELSE "pipe_ready", tok,
                    IF EpDialed(tok) /\ events \cap {"hup", "error"} # {} THEN {tok} ELSE {},
                    {})

\* ready(tok, events) for an open acceptor: it accepts some connections, or fails
EpAcceptorReady ==
    \E tok \in DOMAIN ep.acceptors, accepted \in (-1)..(MaxToken - ep.id_seq) :
        /\ EpAccepting(tok)
        /\ EpCommit(IF EpIsCore THEN CoreSocket_ready(EpWorld, tok, {"readable"}, accepted)
                    ELSE Socket_ready(EpWorld, tok, {"readable"}, accepted),
                    IF accepted < 0 THEN "accept_error" ELSE "accepted", tok,
                    {}, IF accepted < 0 THEN {tok} ELSE {})

\* A Reconnect timer of the token fires.
EpReconnect(tok) ==
    \E i \in DOMAIN epTimers :
        /\ epTimers[i].kind = "Reconnect" /\ epTimers[i].tok = tok
        /\ LET W == [EpWorld EXCEPT !.timers = EpWithoutTimer(i)]
               addr == epTimers[i].addr
           IN  EpCommit(IF EpIsCore THEN CoreSocket_reconnect(W, addr, tok, epNet.connect)
                        ELSE Socket_reconnect(W, addr, tok, epNet.connect),
                        IF epNet.connect THEN "reconnect_ok" ELSE "reconnect_failed", tok, {}, {})

\* A Rebind timer of the token fires.
EpRebind(tok) ==
    \E i \in DOMAIN epTimers, open_ok \in BOOLEAN :
        /\ epTimers[i].kind = "Rebind" /\ epTimers[i].tok = tok
        /\ EpIsCore => open_ok
        /\ LET W == [EpWorld EXCEPT !.timers = EpWithoutTimer(i)]
               addr == epTimers[i].addr
           IN  EpCommit(IF EpIsCore THEN CoreSocket_rebind(W, addr, tok, epNet.bind)
                        ELSE Socket_rebind(W, addr, tok, epNet.bind, open_ok),
                        IF epNet.bind /\ open_ok THEN "rebind_ok" ELSE "rebind_failed", tok, {}, {})

\* The peer or the local address comes and goes.
EpNetChange ==
    /\ epNet' \in [connect : BOOLEAN, bind : BOOLEAN] \ {epNet}
    /\ epGhost' = [epGhost EXCEPT !.op = "net", !.tok = 0, !.closed = {}, !.notes = << >>]
    /\ UNCHANGED <<ep, epTimers, trVars, pairVars, pushVars, pubVars, fqVars, survVars, adVars, optVars>>

InitEp ==
    /\ InitProtocols
    /\ pairOpts = [s \in Sockets |-> NoTimeouts]
    /\ ep \in {EpNew(rev) : rev \in Revs}
    /\ epTimers = << >>
    /\ epNet \in [connect : BOOLEAN, bind : BOOLEAN]
    /\ epGhost = EpGhostNew
    /\ AdIdle

NextEp ==
    \/ EpConnect
    \/ EpBind
    \/ EpShutdown
    \/ EpOpenAcceptor
    \/ EpPipeError
    \/ EpPipeReady
    \/ EpAcceptorReady
    \/ \E tok \in Tokens : EpReconnect(tok)
    \/ \E tok \in Tokens : EpRebind(tok)
    \/ EpNetChange

SpecEp == InitEp /\ [][NextEp]_vars

\* SpecEpShut: the same socket, the tokens Shutdown was handled for being
\* kept (shut).
InitEpShut ==
    /\ InitProtocols
    /\ pairOpts = [s \in Sockets |-> NoTimeouts]
    /\ ep \in {EpNew(rev) : rev \in Revs}
    /\ epTimers = << >>
    /\ epNet \in [connect : BOOLEAN, bind : BOOLEAN]
    /\ epGhost = [EpGhostNew EXCEPT !.track = TRUE]
    /\ AdIdle

SpecEpShut == InitEpShut /\ [][NextEp]_vars

\* The event loop fires every timer that is due and delivers every event it
\* was sent.
EpFairness ==
    /\ \A tok \in Tokens : WF_vars(EpReconnect(tok)) /\ WF_vars(EpRebind(tok))
    /\ WF_vars(EpOpenAcceptor)

SpecEpLive == SpecEp /\ EpFairness

(***************************************************************************)
(* SpecUrl: connect and bind with any URL, well formed or not, through     *)
(* the adapter (ctrl/adapter.rs) or through the socket of core/socket.rs.  *)
(***************************************************************************)
UrlInputs == UrlsUpTo(MaxUrlLen)

\* A URL with no "://" or with a scheme that is no known transport.
UrlMalformed(url) ==
    LET index == str_find(url, Separator)
    IN  index = 0 \/ SubSeq(url, 1, index - 1) # <<"tcp">>

\* The scheme a URL names, if it has the separator.
UrlScheme(url) ==
    LET index == str_find(url, Separator)
    IN  IF index = 0 THEN None ELSE Some(SubSeq(url, 1, index - 1))

AdWorld == [st |-> ad, res |-> IoOk(0), cancels |-> << >>]

\* The endpoint id a call returned, 0 when it vended none.
AdVended(W, op) ==
    IF op \in {"connect", "bind", "insert_pipe"} /\ W.res.kind = "Ok" THEN W.res.val
    ELSE 0

UrlAdCommit(W, op, url) ==
    /\ ad' = W.st
    /\ W.st.endpoints.ids <= MaxToken
    /\ adGhost' = [adGhost EXCEPT !.op = op, !.res = W.res,
                                  !.malformed = UrlMalformed(url),
                                  !.scheme = UrlScheme(url),
                                  !.eid = AdVended(W, op),
                                  !.vended = @ \cup ({adGhost.eid} \ {0})]
    /\ UNCHANGED <<trVars, pairVars, pushVars, pubVars, fqVars, survVars, epVars, optVars>>

\* What a command leaves in the socket of core/socket.rs; conn is the
\* result of create_connection or create_listener.  After a panic the
\* event loop is gone and W is the state it left.
UrlCoreCommit(W, op, url, conn) ==
    /\ ep' = W.st
    /\ W.st.id_seq <= MaxToken
    /\ epTimers' = W.timers
    /\ epGhost' = [EpGhostNew EXCEPT !.op = op, !.notes = W.notes]
    /\ adGhost' = [adGhost EXCEPT !.op = op, !.malformed = UrlMalformed(url),
                                  !.scheme = UrlScheme(url),
                                  !.res = IF conn.kind = "Ok" THEN IoOk(0) ELSE conn]
    /\ UNCHANGED <<ad, epNet, trVars, pairVars, pushVars, pubVars, fqVars, survVars, optVars>>

UrlLoopRuns == adGhost.res.kind # "Panic"

\* Network::connect(url)
UrlAdConnect ==
    \E url \in UrlInputs, io_ok \in BOOLEAN :
        /\ adGhost.impl = "adapter"
        /\ UrlAdCommit(Network_connect(AdWorld, url, io_ok), "connect", url)

\* Network::bind(url)
UrlAdBind ==
    \E url \in UrlInputs, io_ok \in BOOLEAN :
        /\ adGhost.impl = "adapter"
        /\ UrlAdCommit(Network_bind(AdWorld, url, io_ok), "bind", url)

\* handle_cmd(Connect(url)) of core/socket.rs; the pipe keeps the URL it
\* was given, which is written as the first of Urls here.
UrlCoreConnect ==
    \E url \in UrlInputs, io_ok \in BOOLEAN :
        LET conn == CoreSocket_create_connection(url, io_ok)
        IN  /\ adGhost.impl = "core"
            /\ UrlLoopRuns
            /\ UrlCoreCommit(IF conn.kind = "Panic" THEN EpWorld
                             ELSE CoreSocket_connect(EpWorld, "tcp://a", conn.kind = "Ok"),
                             "connect", url, conn)

\* handle_cmd(Bind(url)) of core/socket.rs
UrlCoreBind ==
    \E url \in UrlInputs, io_ok \in BOOLEAN :
        LET lst == CoreSocket_create_listener(url, io_ok)
        IN  /\ adGhost.impl = "core"
            /\ UrlLoopRuns
            /\ UrlCoreCommit(IF lst.kind = "Panic" THEN EpWorld
                             ELSE CoreSocket_bind(EpWorld, "tcp://a", lst.kind = "Ok"),
                             "bind", url, lst)

InitUrl ==
    /\ InitProtocols
    /\ pairOpts = [s \in Sockets |-> NoTimeouts]
    /\ ep = EpNew("core")
    /\ epTimers = << >>
    /\ epNet = [connect |-> TRUE, bind |-> TRUE]
    /\ epGhost = EpGhostNew
    /\ ad = AdNew
    /\ adGhost \in {[AdGhostNew EXCEPT !.impl = i] : i \in {"adapter", "core"}}

NextUrl ==
    \/ UrlAdConnect
    \/ UrlAdBind
    \/ UrlCoreConnect
    \/ UrlCoreBind

SpecUrl == InitUrl /\ [][NextUrl]_vars

(***************************************************************************)
(* SpecOpt: a socket of core/socket.rs whose options are set; it connects  *)
(* and its pipes become ready.                                             *)
(***************************************************************************)
\* The socket's options hold the value the option names already.
OptHolds(o, option) ==
    CASE option.name = "SendTimeout" ->
             o.send_timeout_ms = IF duration_to_millis(option.value) = 0 THEN None
                                 ELSE Some(duration_to_millis(option.value))
      [] option.name = "RecvTimeout" ->
             o.recv_timeout_ms = IF duration_to_millis(option.value) = 0 THEN None
                                 ELSE Some(duration_to_millis(option.value))
      [] option.name = "SendPriority" -> o.send_priority = option.value
      [] option.name = "RecvPriority" -> o.recv_priority = option.value
      [] option.name = "TcpNoDelay" -> o.tcp_nodelay = option.value
      [] option.name = "DeviceItem" -> o.is_device_item = option.value
      [] OTHER -> FALSE

OptCommit(o, op, option, notes, signals) ==
    /\ opts' = o
    /\ optGhost' = [optGhost EXCEPT !.op = op, !.option = option,
                                    !.held = OptHolds(opts, option),
                                    !.notes = notes, !.signals = signals]

\* handle_cmd(SetOption(option))
OptSetOption ==
    \E option \in SocketOptions, proto_ok \in BOOLEAN :
        LET r == CoreSocket_set_option(opts, option, proto_ok)
        IN  /\ OptCommit(r.o, "set_option", option, r.notes, << >>)
            /\ UNCHANGED <<trVars, pairVars, pushVars, pubVars, fqVars, survVars, epVars, adVars>>

\* handle_cmd(Connect(addr))
OptConnect ==
    \E addr \in {"tcp://a"} :
        LET W == CoreSocket_connect(EpWorld, addr, TRUE)
        IN  /\ ep.id_seq < MaxToken
            /\ ep' = W.st
            /\ epTimers' = W.timers
            /\ OptCommit(opts, "connect", NoOption, W.notes, << >>)
            /\ UNCHANGED <<epNet, epGhost, trVars, pairVars, pushVars, pubVars, fqVars,
                           survVars, adVars>>

\* ready(tok, events) for a pipe; can_recv is what the protocol answers
\* once it has processed the event.
OptPipeReady ==
    \E tok \in DOMAIN ep.pipes, events \in EpEventSets, can_recv \in BOOLEAN :
        LET W == CoreSocket_pipe_ready(EpWorld, tok, events)
        IN  /\ ep' = W.st
            /\ epTimers' = W.timers
            /\ OptCommit(opts, IF can_recv THEN "ready_can_recv" ELSE "ready", NoOption,
                         W.notes, CoreSocket_pipe_ready_signals(opts, can_recv))
            /\ UNCHANGED <<epNet, epGhost, trVars, pairVars, pushVars, pubVars, fqVars,
                           survVars, adVars>>

InitOpt ==
    /\ InitProtocols
    /\ pairOpts = [s \in Sockets |-> NoTimeouts]
    /\ EpIdle
    /\ AdIdle

NextOpt ==
    \/ OptSetOption
    \/ OptConnect
    \/ OptPipeReady

SpecOpt == InitOpt /\ [][NextOpt]_vars

(***************************************************************************)
(* SpecAd: the endpoints and the schedule of one event loop, driven        *)
(* through Network and Scheduler (ctrl/adapter.rs).                        *)
(***************************************************************************)
AdUrl == <<"tcp", ":", "/", "/", "x">>

\* The state a call leaves.  eid: the endpoint id vended by the call, if
\* any; removed: the ids whose pipe was removed; stale: the call cancels a
\* Scheduled whose timer fired or that was cancelled before.
AdCommit(W, op, removed, fired, cancelled, stale) ==
    /\ ad' = W.st
    /\ W.st.endpoints.ids <= MaxToken
    /\ \A eid \in (DOMAIN W.st.endpoints.pipes) \cup (DOMAIN W.st.endpoints.acceptors) :
           eid <= MaxToken
    /\ W.st.schedule.ids <= MaxOps
    /\ adGhost' = [adGhost EXCEPT !.op = op, !.res = W.res,
                                  !.eid = AdVended(W, op),
                                  !.vended = @ \cup ({adGhost.eid} \ {0}),
                                  !.removed = @ \cup removed,
                                  !.fired = @ \cup fired,
                                  !.cancelled = @ \cup cancelled,
                                  !.stale = stale,
                                  !.cancels = W.cancels]
    /\ UNCHANGED <<trVars, pairVars, pushVars, pubVars, fqVars, survVars, epVars, optVars>>

\* Network::connect and ::bind
AdConnect ==
    \E io_ok \in BOOLEAN :
        /\ ad.endpoints.ids <= MaxToken
        /\ AdCommit(Network_connect(AdWorld, AdUrl, io_ok), "connect", {}, {}, {}, FALSE)

AdBind ==
    \E io_ok \in BOOLEAN :
        /\ ad.endpoints.ids <= MaxToken
        /\ AdCommit(Network_bind(AdWorld, AdUrl, io_ok), "bind", {}, {}, {}, FALSE)

\* EndpointCollection::insert_pipe for a pipe that an acceptor accepted
AdInsertPipe ==
    /\ ad.endpoints.acceptors # << >>
    /\ AdCommit(EndpointCollection_insert_pipe(AdWorld, "pipe"), "insert_pipe",
                {}, {}, {}, FALSE)

\* EndpointCollection::remove_pipe
AdRemovePipe ==
    \E eid \in DOMAIN ad.endpoints.pipes :
        /\ eid \in 1..ad.endpoints.ids
        /\ AdCommit(EndpointCollection_remove_pipe(AdWorld, eid), "remove_pipe",
                    {eid}, {}, {}, FALSE)

\* Network::reconnect, for the id of a pipe that was removed
AdReconnect ==
    \E eid \in adGhost.removed, io_ok \in BOOLEAN :
        /\ eid \notin DOMAIN ad.endpoints.pipes
        /\ AdCommit(Network_reconnect(AdWorld, eid, AdUrl, io_ok), "reconnect",
                    {}, {}, {}, FALSE)

\* Network::rebind, for the id of an acceptor
AdRebind ==
    \E eid \in DOMAIN ad.endpoints.acceptors, io_ok \in BOOLEAN :
        /\ eid \in 1..ad.endpoints.ids
        /\ AdCommit(Network_rebind(AdWorld, eid, AdUrl, io_ok), "rebind",
                    {}, {}, {}, FALSE)

\* Scheduler::schedule
AdSchedule ==
    \E timer_ok \in BOOLEAN :
        /\ ad.schedule.ids <= MaxOps
        /\ AdCommit(Scheduler_schedule(AdWorld, timer_ok), "schedule", {}, {}, {}, FALSE)

\* The timer of a Scheduled expires: the event loop hands its Schedulable to
\* the socket; the Schedule is not part of that.
AdTimerFires ==
    \E scheduled \in DOMAIN ad.schedule.items :
        /\ ad.schedule.items[scheduled] \in ad.timer.live
        /\ AdCommit([AdWorld EXCEPT !.st.timer.live = @ \ {ad.schedule.items[scheduled]}],
                    "fire", {}, {scheduled}, {}, FALSE)

\* Scheduler::cancel
AdCancel ==
    \E scheduled \in 1..ad.schedule.ids :
        /\ scheduled <= MaxOps
        /\ AdCommit(Scheduler_cancel(AdWorld, scheduled), "cancel", {}, {}, {scheduled},
                    scheduled \in adGhost.fired \cup adGhost.cancelled)

InitAd ==
    /\ InitProtocols
    /\ pairOpts = [s \in Sockets |-> NoTimeouts]
    /\ EpIdle
    /\ AdIdle

NextAd ==
    \/ AdConnect
    \/ AdBind
    \/ AdInsertPipe
    \/ AdRemovePipe
    \/ AdReconnect
    \/ AdRebind
    \/ AdSchedule
    \/ AdTimerFires
    \/ AdCancel

SpecAd == InitAd /\ [][NextAd]_vars

(***************************************************************************)
(* SpecAcc: a TCP acceptor whose listener gets connections and is polled.  *)
(***************************************************************************)
AccFrame ==
    UNCHANGED <<ctl, survId, pairVars, pushVars, pubVars, fqVars, survVars, epVars, adVars,
                optVars>>

\* A peer connects: its stream waits in the listener.
AccArrive ==
    /\ acc.arrived < MaxOps
    /\ acc' = [acc EXCEPT !.arrived = @ + 1, !.backlog = Append(@, acc.arrived + 1),
                          !.op = "arrive"]
    /\ AccFrame

\* ready(events) for the acceptor
AccReady ==
    \E events \in SUBSET {"readable", "writable"} :
        /\ acc.pc = "idle"
        /\ acc' = [TcpAcceptor_ready(acc, events) EXCEPT
                       !.op = IF "readable" \in events THEN "ready" ELSE "ready_other"]
        /\ AccFrame

\* One turn of the loop of accept: listener.accept() hands out a stream
AccAcceptOk ==
    /\ acc.pc = "accepting"
    /\ acc.backlog # << >>
    /\ acc' = [TcpAcceptor_accept_ok(acc, Head(acc.backlog)) EXCEPT
                   !.backlog = Tail(@), !.taken = Append(@, Head(acc.backlog)),
                   !.op = "accept_ok"]
    /\ AccFrame

\* ... or reports WouldBlock, no stream waiting
AccAcceptWouldBlock ==
    /\ acc.pc = "accepting"
    /\ acc.backlog = << >>
    /\ acc' = [TcpAcceptor_accept_would_block(acc) EXCEPT !.op = "would_block"]
    /\ AccFrame

\* ... or fails with another error, which may cost the stream that waited
AccAcceptError ==
    \E drop \in BOOLEAN :
        /\ acc.pc = "accepting"
        /\ Len(acc.raised) < MaxOps
        /\ drop => acc.backlog # << >>
        /\ acc' = [TcpAcceptor_accept_error(acc) EXCEPT
                       !.backlog = IF drop THEN Tail(@) ELSE @, !.op = "accept_error"]
        /\ AccFrame

InitAcc ==
    /\ InitProtocols
    /\ pairOpts = [s \in Sockets |-> NoTimeouts]
    /\ EpIdle
    /\ AdIdle

NextAcc ==
    \/ AccArrive
    \/ AccReady
    \/ AccAcceptOk
    \/ AccAcceptWouldBlock
    \/ AccAcceptError

SpecAcc == InitAcc /\ [][NextAcc]_vars

(***************************************************************************)
(* SpecCtl: commands for pipes and acceptors are sent through Network and  *)
(* processed by the controllers, in the order of the bus.                  *)
(***************************************************************************)
CtlFrame ==
    UNCHANGED <<acc, survId, pairVars, pushVars, pubVars, fqVars, survVars, epVars, adVars,
                optVars>>

CtlEids == 1..MaxToken

CtlQueued(c, op) ==
    /\ ctl' = [c EXCEPT !.op = op, !.calls = << >>]
    /\ CtlFrame

CtlNetworkOpen ==
    \E eid \in CtlEids, remote \in BOOLEAN :
        /\ Len(ctl.queue) < MaxToken
        /\ CtlQueued(Network_open(ctl, eid, remote), "open")

CtlNetworkClose ==
    \E eid \in CtlEids, remote \in BOOLEAN :
        /\ Len(ctl.queue) < MaxToken
        /\ CtlQueued(Network_close(ctl, eid, remote), "close")

CtlNetworkSend ==
    \E eid \in CtlEids :
        /\ Len(ctl.queue) < MaxToken
        /\ CtlQueued(Network_send(ctl, eid), "send")

CtlNetworkRecv ==
    \E eid \in CtlEids :
        /\ Len(ctl.queue) < MaxToken
        /\ CtlQueued(Network_recv(ctl, eid), "recv")

\* The event loop takes the next signal off the bus and has the controller
\* of the endpoint it names process the command.
CtlProcess ==
    /\ ctl.queue # << >>
    /\ LET signal == Head(ctl.queue)
       IN  ctl' = [ctl EXCEPT !.queue = Tail(@), !.op = "process",
                       !.calls = <<[kind |-> signal.kind, eid |-> signal.eid,
                                    call |-> IF signal.kind = "PipeCmd"
                                             THEN PipeController_process(signal.cmd)
                                             ELSE AcceptorController_process(signal.cmd)]>>]
    /\ CtlFrame

InitCtl ==
    /\ InitProtocols
    /\ pairOpts = [s \in Sockets |-> NoTimeouts]
    /\ EpIdle
    /\ AdIdle

NextCtl ==
    \/ CtlNetworkOpen
    \/ CtlNetworkClose
    \/ CtlNetworkSend
    \/ CtlNetworkRecv
    \/ CtlProcess

SpecCtl == InitCtl /\ [][NextCtl]_vars

(***************************************************************************)
(* SpecSnd: a socket of core/socket.rs whose timeouts are set and that is  *)
(* asked to send and to receive.                                           *)
(***************************************************************************)
SndFrame ==
    UNCHANGED <<trVars, pairVars, pushVars, pubVars, fqVars, survVars, epVars, adVars>>

TimeoutSettings == [name : {"SendTimeout", "RecvTimeout"}, value : Durations]

\* handle_cmd(SetOption(SendTimeout(d))) and (RecvTimeout(d)); cfg keeps
\* the Duration the user configured last.
SndSetTimeout ==
    \E option \in TimeoutSettings :
        LET r == CoreSocket_set_option(opts, option, TRUE)
        IN  /\ opts' = r.o
            /\ optGhost' = [optGhost EXCEPT !.op = "set_option", !.option = option,
                                            !.held = OptHolds(opts, option),
                                            !.notes = r.notes, !.eff = << >>,
                                            !.cfg[option.name] = Some(option.value)]
            /\ SndFrame

\* handle_cmd(SendMsg(msg))
SndSend ==
    \E timer_ok \in BOOLEAN :
        /\ opts' = opts
        /\ optGhost' = [optGhost EXCEPT !.op = "send", !.option = NoOption,
                                        !.held = FALSE, !.notes = << >>,
                                        !.eff = CoreSocket_send(opts, timer_ok)]
        /\ SndFrame

\* handle_cmd(RecvMsg)
SndRecv ==
    \E timer_ok \in BOOLEAN :
        /\ opts' = opts
        /\ optGhost' = [optGhost EXCEPT !.op = "recv", !.option = NoOption,
                                        !.held = FALSE, !.notes = << >>,
                                        !.eff = CoreSocket_recv(opts, timer_ok)]
        /\ SndFrame

InitSnd ==
    /\ InitProtocols
    /\ pairOpts = [s \in Sockets |-> NoTimeouts]
    /\ EpIdle
    /\ AdIdle

NextSnd ==
    \/ SndSetTimeout
    \/ SndSend
    \/ SndRecv

SpecSnd == InitSnd /\ [][NextSnd]_vars

(***************************************************************************)
(* SpecSid: the survey ids of a SURVEYOR socket at the width of the code.  *)
(* The counter starts as earlier surveys left it; each send takes the next *)
(* id and writes it in the header of the survey.                          *)
(***************************************************************************)
SidFrame ==
    UNCHANGED <<acc, ctl, pairVars, pushVars, pubVars, fqVars, survVars, epVars, adVars,
                optVars>>

\* The counter starts at the nanoseconds of the clock (Surv::new) and is
\* one more after each survey: every u32 is a value it takes.  The values
\* around the carries, the top bit and the end of the range are followed.
SidSeqs ==
    { U32(hi, lo) : hi \in {0, 15258, U16 \div 2 - 1, U16 \div 2, U16 - 1},
                    lo \in {0, 255, U16 - 2, U16 - 1} }

\* The header of the message the user sends: empty, or hops already there.
SidHeaders == { << >>, <<0, 0, 0, 1>> }

\* The socket as the surveys sent so far left it, in a build with or
\* without overflow checks.
SidDraw ==
    /\ survId.pc = "new"
    /\ \E seq \in SidSeqs, checks \in BOOLEAN :
           survId' = [survId EXCEPT !.pc = "run", !.overflow_checks = checks,
                              !.start = seq, !.survey_id_seq = seq]
    /\ SidFrame

\* Surv::send up to the raw message: next_survey_id, then msg_to_raw_msg.
SidSend ==
    /\ survId.pc = "run"
    /\ ~survId.panicked
    /\ survId.sends < MaxSurveys
    /\ \E header \in SidHeaders :
           LET n == Surv_next_survey_id_u32(survId.survey_id_seq, survId.overflow_checks)
           IN  survId' = IF n.kind = "Panic"
                      THEN [survId EXCEPT !.panicked = TRUE]
                      ELSE [survId EXCEPT !.survey_id_seq = n.val.survey_id_seq,
                                       !.sends = @ + 1,
                                       !.prev_id = survId.id,
                                       !.id = Some(n.val.next_id),
                                       !.header = Surv_msg_to_raw_msg_u32(header, n.val.next_id)]
    /\ SidFrame

InitSid ==
    /\ InitProtocols
    /\ pairOpts = [s \in Sockets |-> NoTimeouts]
    /\ EpIdle
    /\ AdIdle

NextSid ==
    \/ SidDraw
    \/ SidSend

SpecSid == InitSid /\ [][NextSid]_vars

(***************************************************************************)
(* Claims about PAIR                                                       *)
(***************************************************************************)

\* C1: every user send is answered exactly once: no send gets two of
\* MsgSent / MsgNotSent, and a send that has completed or timed out has got one.
C1_SendAnsweredExactlyOnce ==
    \A m \in Msgs :
        /\ pairGhost["A"].ans[m] <= 1
        /\ m \in pairGhost["A"].fin => pairGhost["A"].ans[m] = 1

IsSendStep(s) == pairGhost'[s].sends = pairGhost[s].sends + 1
IsRecvStep(s) == pairGhost'[s].recvs = pairGhost[s].recvs + 1
LastEvtIs(s, kind) ==
    /\ Len(pairEvt'[s]) = Len(pairEvt[s]) + 1
    /\ pairEvt'[s][Len(pairEvt'[s])].evt = kind

\* C2: a send (recv) issued while a send (recv) is pending fails with an
\* error reply and leaves the pending operation, its message and its
\* timeout-cancel handle unchanged.
C2_SecondRequestFails ==
    [][ /\ (IsSendStep("A") /\ IsSome(pair["A"].pending_send)) =>
              /\ LastEvtIs("A", "MsgNotSent")
              /\ pair'["A"].pending_send = pair["A"].pending_send
              /\ pair'["A"].cancel_send_timeout = pair["A"].cancel_send_timeout
        /\ (IsRecvStep("A") /\ pair["A"].pending_recv) =>
              /\ LastEvtIs("A", "MsgNotRecv")
              /\ pair'["A"].pending_recv = pair["A"].pending_recv
              /\ pair'["A"].cancel_recv_timeout = pair["A"].cancel_recv_timeout
      ]_vars

IsAddEndpointStep(s) == pairGhost'[s].id_seq # pairGhost[s].id_seq

\* C4: adding an endpoint while a pipe is active leaves the active pipe in
\* place; the new pipe is parked.
C4_AddEndpointKeepsActivePipe ==
    [][ (IsAddEndpointStep("A") /\ IsSome(pair["A"].pipe)) =>
            pair'["A"].pipe = pair["A"].pipe ]_vars

Range(q) == {q[i] : i \in 1..Len(q)}
Increasing(q) == \A i, j \in 1..Len(q) : i < j => q[i] < q[j]
LinkAcked == pairGhost["A"].acked
LinkRecvd == pairGhost["B"].recvd

\* What B has been handed, in order, is A's completed sends without a gap:
\* message ids are A's send order, so an increasing sequence is neither
\* reordered nor duplicated, and no completed send is skipped.
LinkDeliveryInOrder ==
    /\ Increasing(LinkRecvd)
    /\ \A m \in Range(LinkAcked), n \in Range(LinkRecvd) :
           m < n => m \in Range(LinkRecvd)

\* C3: between two connected PAIR sockets, every message whose send on A was
\* answered MsgSent is eventually handed to B by a MsgRecv, and B is handed A's
\* messages in A's send order, none lost, duplicated or reordered.
C3_PairDelivery ==
    /\ []LinkDeliveryInOrder
    /\ \A m \in Msgs : (m \in Range(LinkAcked)) ~> (m \in Range(LinkRecvd))

(***************************************************************************)
(* Claims about PUSH                                                       *)
(***************************************************************************)
\* C5: each message sent on a PUSH socket is written to at most one pipe and
\* produces at most one MsgSent, whatever the interleaving of sends and
\* readiness events, also when it was kept pending on several pipes.
C5_PushAtMostOnce ==
    \A m \in PushMsgs :
        /\ Cardinality(pushGhost.acc[m]) <= 1
        /\ pushGhost.cnt[m] <= 1

\* C5 witness: a message that two pipes kept pending at once was written by
\* one of them and answered MsgSent.
C5_Witness ==
    \E m \in PushMsgs :
        /\ pushGhost.multi = m
        /\ Cardinality(pushGhost.acc[m]) = 1
        /\ pushGhost.cnt[m] = 1

IsPushSendStep == pushGhost'.sends = pushGhost.sends + 1
PushNotConnectedRaised ==
    /\ Len(pushEvt') = Len(pushEvt) + 1
    /\ pushEvt'[Len(pushEvt')] = Notify("MsgNotSent", "NotConnected", 0)

\* C6: a PUSH send issued while no pipe is connected or send-ready is not
\* answered with a NotConnected error.
C6_PushSendQueued ==
    [][ (IsPushSendStep /\ PushReadyTokens(push.pipes) = {})
            => ~PushNotConnectedRaised ]_vars

\* C7: PUSH load balancing rotates: the pipe given the last message is not
\* given the next one while another pipe has been send-ready ever since, and
\* still is, without being given a message.
C7_PushRotates ==
    [][ \A p \in PushChosen :
            p = pushLb.last
                => pushLb.waiting \cap PushReadyTokens(push'.pipes) \subseteq {p} ]_vars

(***************************************************************************)
(* Claims about PUB                                                        *)
(***************************************************************************)
PubStepIs(op) == pubGhost'.ops = pubGhost.ops + 1 /\ pubGhost'.op = op
PubTimeoutCancelled ==
    IsSome(pubGhost'.timeout) => Unwrap(pubGhost'.timeout) \notin pubCtx'.sched

\* C8: a PUB send never fails: with any set of attached and ready pipes it
\* replies exactly one Send and cancels the send timeout it was given, and a
\* later on_send_timeout call emits no reply.
C8_PubSendNeverFails ==
    [][ /\ PubStepIs("send")
            => pubReplies' = Append(pubReplies, "Send") /\ PubTimeoutCancelled
        /\ PubStepIs("on_send_timeout") => pubReplies' = pubReplies ]_vars

\* C8 witness: with no pipe ready a send that came with a timeout was
\* answered Send, and on_send_timeout was called afterwards.
C8_Witness ==
    /\ pubGhost.op = "on_send_timeout"
    /\ pubReplies = <<"Send">>
    /\ pubCtx.sent_to = {}
    /\ pubCtx.sched = {}
    /\ pubCtx.can_send = Some(FALSE)

\* C9: a PUB recv always fails at once: it replies exactly one Err, cancels
\* the recv timeout it was given and changes neither the pipe collection nor
\* the ready set; is_recv_ready() is false in every reachable state.
C9_PubRecvAlwaysFails ==
    /\ [][ PubStepIs("recv")
               => /\ pubReplies' = Append(pubReplies, "Err")
                  /\ PubTimeoutCancelled
                  /\ publ' = publ ]_vars
    /\ [](~Pub_is_recv_ready(publ))

\* C9 witness: a recv that came with a timeout was answered Err while a pipe
\* was attached and send-ready.
C9_Witness ==
    /\ pubGhost.op = "recv"
    /\ IsSome(pubGhost.timeout)
    /\ pubReplies[Len(pubReplies)] = "Err"
    /\ publ.bc \cap publ.pipes # {}

C11_PubDispatchOnlyToReady ==
    [][ PubStepIs("send")
            => /\ pubCtx'.sent_to \subseteq publ.pipes
               /\ pubCtx'.sent_to \subseteq pubGhost.fresh ]_vars

(***************************************************************************)
(* Claims about the fair queue                                             *)
(***************************************************************************)
\* The step notifies the user of a message, read from pipe tok.
FqServed(tok) ==
    /\ fqOp'.ans = fqOp.ans + 1
    /\ fqOp'.reply = [kind |-> "MsgRecv", msg |-> tok]

\* C12: a fair-queue recv delivers the message of the pipe at the head of the
\* queue of recv-ready pipes and then rotates: the head moves to another
\* recv-ready pipe if there is one, and no pipe is served twice in a row
\* while another pipe has been recv-ready since the previous delivery.
C12_FairQueueRotates ==
    [][ \A tok \in FqTokens :
            FqServed(tok)
                => /\ PrioList_get(fq.fair_queue) = Some(tok)
                   /\ fq'.fair_queue.active \ {tok} # {}
                          => /\ IsSome(PrioList_get(fq'.fair_queue))
                             /\ Unwrap(PrioList_get(fq'.fair_queue))
                                    \in fq'.fair_queue.active \ {tok}
                   /\ fqGhost.last = tok => fqGhost.since = {} ]_vars

\* A message was delivered while another pipe had been recv-ready since the
\* previous delivery.
C12_Witness == fqGhost.rot /\ fqOp.reply.kind = "MsgRecv"

(***************************************************************************)
(* Claims about SURVEYOR                                                   *)
(***************************************************************************)
\* The last step handed a reply to the user.
SurvDelivered == survEvt.ans > 0 /\ survEvt.reply.evt = "MsgRecv"

\* C13: a SURVEYOR hands a reply to the user only if the survey id of the reply
\* is the id of the most recent send; a reply carrying the id of an earlier
\* survey is never handed over once a new survey was sent.
C13_SurvOnlyCurrentSurvey ==
    SurvDelivered
        => /\ survGhost.surveys > 0
           /\ survEvt.reply.msg = survGhost.last_id
           /\ survEvt.reply.msg \notin survGhost.old_ids

\* A reply to the second survey is handed to the user.
C13_Witness == SurvDelivered /\ survGhost.old_ids # {}

EmittedNow == SubSeq(pairEvt'["A"], Len(pairEvt["A"]) + 1, Len(pairEvt'["A"]))

EmittedOf(kinds) == {i \in 1..Len(EmittedNow) : EmittedNow[i].evt \in kinds}

TimedOutNow(kind) ==
    {i \in 1..Len(EmittedNow) : EmittedNow[i] = Notify(kind, "TimedOut", 0)}

\* No send is kept by the PAIR protocol or by its pipe.
PairSendCleared(st) ==
    /\ st.pending_send = None
    /\ st.cancel_send_timeout = None
    /\ IsSome(st.pipe) => Unwrap(st.pipe).sst = "Idle"

\* No recv is kept by the PAIR protocol or by its pipe.
PairRecvCleared(st) ==
    /\ ~st.pending_recv
    /\ st.cancel_recv_timeout = None
    /\ IsSome(st.pipe) => Unwrap(st.pipe).rst = "Idle"

PairTimeoutClears ==
    /\ Cardinality(TimedOutNow("MsgNotSent")) <= 1
    /\ Cardinality(TimedOutNow("MsgNotRecv")) <= 1
    /\ TimedOutNow("MsgNotSent") # {} => PairSendCleared(pair'["A"])
    /\ TimedOutNow("MsgNotRecv") # {} => PairRecvCleared(pair'["A"])
    /\ (PairSendCleared(pair["A"]) /\ ~IsSendStep("A"))
           => EmittedOf({"MsgSent", "MsgNotSent"}) = TimedOutNow("MsgNotSent")
    /\ (PairRecvCleared(pair["A"]) /\ ~IsRecvStep("A"))
           => EmittedOf({"MsgRecv", "MsgNotRecv"}) = TimedOutNow("MsgNotRecv")

\* The step answers the recv request of the fair queue with an error.
FqTimedOutNow == fqOp'.ans = fqOp.ans + 1 /\ fqOp'.reply.kind = "MsgNotRecv"

\* No recv is kept by the protocol or by a pipe, and no timeout is armed.
FqRecvCleared(st, op, timers) ==
    /\ op.phase = "idle"
    /\ op.timeout = None
    /\ timers = {}
    /\ \A t \in DOMAIN st.pipes : ~st.pipes[t].recv_pending

FqTimeoutClears ==
    /\ FqTimedOutNow => fqOp'.ans = 1 /\ FqRecvCleared(fq', fqOp', fqTimers')
    /\ FqRecvCleared(fq, fqOp, fqTimers) => fqOp'.ans # fqOp.ans + 1

\* C15: when a send or recv timeout fires, the user gets one TimedOut reply
\* and the operation is cleared: the protocol and its pipe keep no pending
\* send (recv), and until the next request no other reply is raised for it.
C15_TimeoutClearsOperation == [][PairTimeoutClears /\ FqTimeoutClears]_vars

\* A send and a recv of the PAIR socket have both timed out.
C15_Witness ==
    /\ \E i \in 1..Len(pairEvt["A"]) : pairEvt["A"][i] = Notify("MsgNotSent", "TimedOut", 0)
    /\ \E i \in 1..Len(pairEvt["A"]) : pairEvt["A"][i] = Notify("MsgNotRecv", "TimedOut", 0)

\* The step answers the send of message m with MsgSent.
SentNow(m) ==
    /\ pairGhost'["A"].ans[m] = pairGhost["A"].ans[m] + 1
    /\ EmittedOf({"MsgSent"}) # {}

\* C16: when a send completes before its timeout fires, the timeout scheduled
\* for it is cancelled: once the send is answered with MsgSent, no CancelSend
\* timeout of that send is left to fire and raise TimedOut for it.
C16_CompletionCancelsTimeout ==
    [][ \A m \in Msgs :
            SentNow(m) => Timer("CancelSend", "A", m) \notin pairTimers' ]_vars

(***************************************************************************)
(* Claims about endpoints                                                  *)
(***************************************************************************)

\* The step delivers the loss of pipe tok, which the protocol holds: a pipe
\* Error event, or readiness with hup or error.
PipeLostNow(tok) ==
    /\ epGhost'.op \in {"pipe_error", "pipe_lost"}
    /\ epGhost'.tok = tok
    /\ tok \in DOMAIN ep.pipes

PipeLossHandled(tok) ==
    /\ tok \notin DOMAIN ep'.pipes
    /\ tok \in epGhost'.closed
    /\ IF IsSome(ep.pipes[tok].addr)
       THEN \E ms \in {CoreDelayMs, OldDelayMs} :
                epTimers' = Append(epTimers,
                                   EpTimer("Reconnect", tok, Unwrap(ep.pipes[tok].addr), ms))
       ELSE epTimers' = epTimers

\* C17: when a pipe is lost the socket removes it from the protocol, closes
\* it, and schedules one Reconnect timer with the pipe's token and URL if the
\* pipe was dialed, and no timer if it was accepted.
C17_PipeLossSchedulesReconnect ==
    [][ \A tok \in Tokens : PipeLostNow(tok) => PipeLossHandled(tok) ]_vars

\* The step is an attempt to reconnect the pipe of token tok.
ReconnectNow(tok) ==
    /\ epGhost'.op \in {"reconnect_ok", "reconnect_failed"}
    /\ epGhost'.tok = tok

\* The attempt used a Reconnect timer of the token: when connecting succeeds
\* the protocol has the pipe with the timer's URL, when it fails the same
\* timer is scheduled again.
ReconnectHandled(tok) ==
    \E i \in DOMAIN epTimers :
        /\ epTimers[i].kind = "Reconnect" /\ epTimers[i].tok = tok
        /\ IF epNet.connect
           THEN /\ tok \in DOMAIN ep'.pipes
                /\ ep'.pipes[tok].addr = Some(epTimers[i].addr)
                /\ epTimers' = EpWithoutTimer(i)
           ELSE /\ ep' = ep
                /\ \E ms \in {CoreDelayMs, OldDelayMs} :
                       epTimers' = Append(EpWithoutTimer(i),
                                          EpTimer("Reconnect", tok, epTimers[i].addr, ms))

PipeReestablished ==
    \A tok \in Tokens : (tok \in epGhost.lost) ~> (tok \notin epGhost.lost)

\* C18: after a dialed pipe is lost a new pipe for the same URL is eventually
\* added to the protocol once connecting succeeds for good; every failed
\* reconnect schedules another Reconnect with the same token and URL, and a
\* successful one adds the pipe.
C18_ReconnectUntilEstablished ==
    /\ (<>[](epNet.connect)) => PipeReestablished
    /\ [][ \A tok \in Tokens : ReconnectNow(tok) => ReconnectHandled(tok) ]_vars

\* The step delivers an accept error of the acceptor of token tok.
AcceptErrorNow(tok) ==
    /\ epGhost'.op = "accept_error"
    /\ epGhost'.tok = tok
    /\ tok \in DOMAIN ep.acceptors

RebindTimers(timers, tok) ==
    {i \in DOMAIN timers : timers[i].kind = "Rebind" /\ timers[i].tok = tok}

AcceptErrorHandled(tok) ==
    /\ tok \notin DOMAIN ep'.acceptors
    /\ tok \in epGhost'.closed
    /\ \E ms \in {CoreDelayMs, OldDelayMs} :
           epTimers' = Append(epTimers, EpTimer("Rebind", tok, ep.acceptors[tok].addr, ms))
    /\ Cardinality(RebindTimers(epTimers', tok)) = 1

RebindFailedNow(tok) ==
    /\ epGhost'.tok = tok
    /\ \/ epGhost'.op = "rebind_failed"
       \/ /\ epGhost'.op = "open_acceptor"
          /\ tok \in epGhost.down
          /\ ep'.acceptors[tok].state = "NotOpen"

\* The URLs the attempt was made for.
RebindUrls(tok) ==
    {epTimers[i].addr : i \in RebindTimers(epTimers, tok)}
        \cup {ep.acceptors[t].addr : t \in DOMAIN ep.acceptors \cap {tok}}

RebindRescheduled(tok) ==
    \E i \in RebindTimers(epTimers', tok) : epTimers'[i].addr \in RebindUrls(tok)

AcceptorReestablished ==
    \A tok \in Tokens : (tok \in epGhost.down) ~> (tok \notin epGhost.down)

\* C20: after an acceptor is lost it is eventually open again once binding
\* succeeds for good; a rebind attempt that fails, at creating the listener
\* or at opening the acceptor, schedules another Rebind with the same token
\* and URL.
C20_RebindUntilEstablished ==
    /\ (<>[](epNet.bind)) => AcceptorReestablished
    /\ [][ \A tok \in Tokens : RebindFailedNow(tok) => RebindRescheduled(tok) ]_vars

\* C21: every Reconnect and every Rebind timer the socket schedules has a
\* delay of exactly 500 ms, whatever was attempted before.
C21_FixedDelay ==
    \A i \in DOMAIN epTimers : epTimers[i].ms = 500

\* The step handles the loss of a pipe or an attempt to reconnect one.
PipeTroubleNow ==
    epGhost'.op \in {"pipe_error", "pipe_lost", "reconnect_ok", "reconnect_failed"}

\* C22: the loss of a pipe (Error event, hup or error readiness) and every
\* reconnect attempt, successful or not, send no notification to the user.
C22_PipeErrorsStayInside ==
    [][ PipeTroubleNow => epGhost'.notes = << >> ]_vars

\* A reconnect attempt has just failed and the next one is scheduled.
C22_Witness ==
    /\ epGhost.op = "reconnect_failed"
    /\ \E i \in DOMAIN epTimers :
           epTimers[i].kind = "Reconnect" /\ epTimers[i].tok = epGhost.tok

\* The step handles a command of the user: Connect, Bind or Shutdown.
CommandNow == epGhost'.op \in {"connect", "bind", "shutdown"}

\* C23: every command the socket handles is answered by exactly one
\* notification to the user.
C23_OneReplyPerCommand ==
    [][ CommandNow => Len(epGhost'.notes) = 1 ]_vars

(***************************************************************************)
(* Claims about URLs, endpoint ids, the schedule and the options           *)
(***************************************************************************)
MalformedUrlNow == adGhost'.op \in {"connect", "bind"} /\ adGhost'.malformed

UrlRefused ==
    /\ adGhost'.res = IoErr("InvalidInput")
    /\ ad'.endpoints = ad.endpoints
    /\ ep' = ep
    /\ adGhost.impl = "core" =>
           epGhost'.notes = <<IF adGhost'.op = "connect" THEN "NotConnected"
                              ELSE "NotBound">>

\* C24: connect or bind with a URL that has no "://" or whose scheme is no
\* known transport fails with InvalidInput, given as the reply to that
\* request (NotConnected / NotBound), the event loop goes on, and the
\* endpoints and the sequence of endpoint ids are as they were.
C24_MalformedUrlRefused == [][MalformedUrlNow => UrlRefused]_vars

PriorityNow == optGhost'.option.name \in {"SendPriority", "RecvPriority"}

PrioritySetValidly ==
    LET p == optGhost'.option.value
    IN  IF 1 <= p /\ p <= 16
        THEN /\ optGhost'.notes = <<"OptionSet">>
             /\ opts' = IF optGhost'.option.name = "SendPriority"
                        THEN [opts EXCEPT !.send_priority = p]
                        ELSE [opts EXCEPT !.recv_priority = p]
        ELSE /\ optGhost'.notes = <<"OptionNotSet">>
             /\ opts' = opts

PrioritiesInRange == opts.send_priority \in 1..16 /\ opts.recv_priority \in 1..16

\* C25: SetOption SendPriority(p) or RecvPriority(p) is answered OptionSet
\* with p stored when 1 <= p <= 16, and OptionNotSet with the stored
\* priorities unchanged otherwise; both stored priorities are in 1..16 in
\* every reachable state.
C25_PrioritiesStayValid ==
    /\ [][PriorityNow => PrioritySetValidly]_vars
    /\ []PrioritiesInRange

C25_Witness ==
    /\ optGhost.option = [name |-> "SendPriority", value |-> 17]
    /\ optGhost.notes = <<"OptionNotSet">>
    /\ opts.send_priority = 16

SetOptionNow == optGhost'.op = "set_option"

SetOptionAnswered ==
    /\ optGhost'.notes \in {<<"OptionSet">>, <<"OptionNotSet">>}
    /\ optGhost'.held => opts' = opts

\* C26: setting an option to the value it already has leaves the options
\* of the socket as they were, and every SetOption is answered with exactly
\* one reply, OptionSet or OptionNotSet.
C26_SetOptionIdempotent == [][SetOptionNow => SetOptionAnswered]_vars

C26_Witness ==
    /\ optGhost.op = "set_option"
    /\ optGhost.held
    /\ optGhost.option.name = "SendTimeout"
    /\ opts.send_timeout_ms = Some(1000)

PipeReadyNow == optGhost'.op \in {"ready", "ready_can_recv"}

ReadableRaised == optGhost'.signals = <<"Readable">>

ReadableWhenDue ==
    /\ optGhost'.signals \in {<< >>, <<"Readable">>}
    /\ ReadableRaised <=> (opts.is_device_item /\ optGhost'.op = "ready_can_recv")

\* C30: on pipe readiness the socket raises Readable if and only if
\* DeviceItem is on and the protocol can receive once it has processed the
\* event; with DeviceItem off no Readable is raised.
C30_ReadableOnlyForDeviceItem ==
    /\ [][PipeReadyNow => ReadableWhenDue]_vars
    /\ [](optGhost.signals # << >> => opts.is_device_item)

C30_Witness ==
    /\ optGhost.op = "ready_can_recv"
    /\ optGhost.signals = <<"Readable">>
    /\ opts.is_device_item

\* C27: every EndpointId vended by the EndpointCollection, for a pipe or
\* for an acceptor and in any order, is strictly greater than every id it
\* vended before.
C27_EndpointIdsIncrease ==
    [][adGhost'.eid # 0 => \A e \in adGhost'.vended : adGhost'.eid > e]_vars

C27_Witness ==
    /\ adGhost.op = "bind"
    /\ adGhost.eid = 2
    /\ adGhost.vended = {1}
    /\ 1 \in DOMAIN ad.endpoints.pipes

\* C28: an EndpointId is never reused: once the pipe under an id has been
\* removed, nothing is stored under that id again, by reconnect and rebind
\* included.
C28_EndpointIdsNeverReused ==
    \A eid \in adGhost.removed :
        eid \notin (DOMAIN ad.endpoints.pipes) \cup (DOMAIN ad.endpoints.acceptors)

StaleCancelNow == adGhost'.op = "cancel" /\ adGhost'.stale

\* C29: cancelling a Scheduled whose timer has fired already, or that was
\* cancelled already, is a no-op: no cancellation is invoked on the timer
\* of the event loop and the other entries of the Schedule stay as they are.
C29_StaleCancelIsNoOp ==
    [][StaleCancelNow =>
           /\ adGhost'.cancels = << >>
           /\ ad'.timer = ad.timer
           /\ \A s \in DOMAIN ad.schedule.items :
                  s \in adGhost.fired \cup adGhost.cancelled
                      \/ (s \in DOMAIN ad'.schedule.items
                             /\ ad'.schedule.items[s] = ad.schedule.items[s])]_vars

AcceptedEvents(raised) == SelectSeq(raised, LAMBDA e : e.evt = "Accepted")

ErrorEvents(raised) == SelectSeq(raised, LAMBDA e : e.evt = "Error")

AcceptDone == acc.pc = "accepting" /\ acc'.pc = "idle"

AcceptedAsTaken ==
    AcceptedEvents(acc'.raised) =
        IF acc.taken = << >> THEN << >>
        ELSE <<[evt |-> "Accepted",
                pipes |-> [i \in 1..Len(acc.taken) |-> [stream |-> acc.taken[i]]]]>>

\* C32: on a readable event the acceptor accepts the waiting streams until
\* accept reports WouldBlock and raises one Accepted event with one pipe per
\* accepted stream, in the order of the accepts; with no stream accepted it
\* raises no Accepted, and an event that is not readable accepts nothing.
C32_AcceptDrainsBacklog ==
    /\ [][AcceptDone => (acc.backlog = << >> /\ AcceptedAsTaken)]_vars
    /\ [](acc.pc = "accepting" => AcceptedEvents(acc.raised) = << >>)
    /\ [](acc.op = "ready_other" =>
              acc.pc = "idle" /\ acc.taken = << >> /\ acc.raised = << >>)

C32_Witness ==
    /\ acc.op = "would_block"
    /\ Len(acc.taken) = 2
    /\ Len(AcceptedEvents(acc.raised)) = 1

\* C33: the loop of accept stops at the first accept error that is not
\* WouldBlock, and raises at most one Error for one readiness event.
C33_AcceptStopsOnError ==
    /\ Len(ErrorEvents(acc.raised)) <= 1
    /\ ErrorEvents(acc.raised) # << >> => acc.pc = "idle"

\* The pipe operation that bears the name of a command
OperationNamed(cmd) ==
    CASE cmd = "Open" -> "open"
      [] cmd = "Close" -> "close"
      [] cmd = "Send" -> "send"
      [] cmd = "Recv" -> "recv"

PipeCmdProcessedNow ==
    /\ ctl'.op = "process"
    /\ ctl.queue # << >>
    /\ Head(ctl.queue).kind = "PipeCmd"

\* C34: a pipe command routed through the PipeController invokes the pipe
\* operation of the same name on the pipe it was sent for, and no other:
\* Recv calls recv, Open calls open, Close calls close, Send calls send.
C34_CommandInvokesSameOperation ==
    [][PipeCmdProcessedNow =>
           ctl'.calls = <<[kind |-> "PipeCmd", eid |-> Head(ctl.queue).eid,
                           call |-> OperationNamed(Head(ctl.queue).cmd)]>>]_vars

\* The timeout configured for an operation is there and not zero.
NonZeroTimeout(cfg) ==
    cfg # None /\ (Unwrap(cfg).secs > 0 \/ Unwrap(cfg).nanos > 0)

TimerThenProtocol(eff, kind, call, cfg) ==
    IF NonZeroTimeout(cfg)
    THEN /\ Len(eff) = 2
         /\ eff[1].eff = "timeout" /\ eff[1].kind = kind
         /\ eff[2] = EffProtocol(call, Some(kind))
    ELSE eff = <<EffProtocol(call, None)>>

\* C35: a CancelSend (CancelRecv) timer is scheduled for a user send (recv)
\* if and only if the send (recv) timeout configured is not zero: one timer,
\* scheduled before the send (recv) of the protocol runs and given to it as
\* the cancel handle; with the timeout unset or zero no timer is scheduled
\* and the protocol gets no handle.
C35_TimerIffTimeoutConfigured ==
    /\ optGhost.op = "send" =>
           TimerThenProtocol(optGhost.eff, "CancelSend", "send", optGhost.cfg.SendTimeout)
    /\ optGhost.op = "recv" =>
           TimerThenProtocol(optGhost.eff, "CancelRecv", "recv", optGhost.cfg.RecvTimeout)

\* The value of four bytes read most significant first, as its halves.
BigEndianValue(bytes) == U32(bytes[1] * 256 + bytes[2], bytes[3] * 256 + bytes[4])

\* The last four bytes of a header.
TerminalHop(header) == SubSeq(header, Len(header) - 3, Len(header))

\* x + n modulo 2^32
U32Plus(x, n) ==
    LET lo == x.lo + n
        hi == x.hi + (lo \div U16)
    IN  U32(hi % U16, lo % U16)

\* C36: every survey id has its top bit (bit 31) set and is the last four
\* bytes of the header, most significant byte first; the ids of two
\* consecutive surveys differ; the counter is one more after each send,
\* modulo 2^32, and no send fails.
C36_SurveyIdsTopBitAndWrap ==
    survId.pc = "run" =>
        /\ ~survId.panicked
        /\ survId.survey_id_seq = U32Plus(survId.start, survId.sends)
        /\ survId.sends >= 1 =>
               /\ Unwrap(survId.id).hi >= U16 \div 2
               /\ Len(survId.header) >= 4
               /\ BigEndianValue(TerminalHop(survId.header)) = Unwrap(survId.id)
        /\ survId.sends >= 2 => survId.id # survId.prev_id

(***************************************************************************)
(* Claims about shutting an endpoint down                                  *)
(***************************************************************************)
\* The endpoint is an acceptor of the socket or a pipe of the protocol.
EpHeld(tok) == tok \in DOMAIN ep.acceptors \/ tok \in DOMAIN ep.pipes

\* Handling Shutdown leaves the timers as they were.
ShutdownSchedulesNothing ==
    (EpIsCore /\ epGhost'.op = "shutdown") => epTimers' = epTimers

\* C37: once Shutdown(tok) was handled (shut holds the tokens it was handled
\* for) the endpoint tok is neither an acceptor of the socket nor a pipe of
\* the protocol, then and ever after, whatever timer was pending for it;
\* and handling Shutdown schedules no Reconnect and no Rebind.
C37_ShutdownIsFinal ==
    /\ [](EpIsCore => \A tok \in epGhost.shut : ~EpHeld(tok))
    /\ [][ShutdownSchedulesNothing]_vars

(***************************************************************************)
(* Claims about the acknowledgement of a survey                            *)
(***************************************************************************)
\* The last step raised MsgSent.
SurvMsgSentRaised == survGhost.sans > 0 /\ survEvt.sreply.evt = "MsgSent"

\* Every pipe attached when the survey was acknowledged had sent it.
SurvAckedByAll ==
    LET a == Unwrap(survGhost.acked)
    IN  /\ a.pipes # {}
        /\ \A t \in a.pipes : [tok |-> t, sid |-> a.sid] \in a.fin

\* The step acknowledges a survey that was not acknowledged before.
SurvAckedOnce ==
    IsSome(survGhost'.acked) => Unwrap(survGhost'.acked).sid \notin survGhost.acks

\* C38: MsgSent is raised for a survey only when every pipe attached at that
\* moment has sent the whole of it, and there is such a pipe; one step
\* raises one MsgSent at most, and no survey is acknowledged twice.
C38_MsgSentWhenAllPipesSent ==
    /\ [](SurvMsgSentRaised =>
              /\ survGhost.sans = 1
              /\ IsSome(survGhost.acked)
              /\ SurvAckedByAll)
    /\ [][SurvAckedOnce]_vars

(***************************************************************************)
(* Claims about the pipes of a protocol with a fair queue                  *)
(***************************************************************************)
\* The tokens in the fair queue: listed, activated or current.
FqQueued(st) ==
    {st.fair_queue.items[i] : i \in 1..Len(st.fair_queue.items)}
        \cup st.fair_queue.active
        \cup {tok \in FqTokens : st.fair_queue.current = Some(tok)}

\* add_pipe(tok, pipe) returned an error.
FqAddFailed(tok, conn) == Wfq_add_pipe(FqWorld, tok, FqPipeOf(conn)).add_res = "Err"

\* C39: add_pipe with a token that has a pipe already returns an error and
\* leaves the pipe map, which still holds the first pipe, and the fair
\* queue as they were; after remove_pipe(tok) the token is neither in the
\* pipe map nor in the fair queue.
C39_AddPipeTwiceChangesNothing ==
    [][ /\ \A tok \in DOMAIN fq.pipes, conn \in FqConns :
               FqAddPipeOf(tok, conn) => (FqAddFailed(tok, conn) /\ fq' = fq)
        /\ \A tok \in DOMAIN fq.pipes :
               FqRemovePipeOf(tok) => (tok \notin DOMAIN fq'.pipes /\ tok \notin FqQueued(fq')) ]_vars

(***************************************************************************)
(* Claims about events of a pipe that is not the active one                *)
(***************************************************************************)
\* A token the socket has issued that is not the token of the active pipe.
PairForeign(token) ==
    /\ token <= pairGhost["A"].id_seq
    /\ IsSome(pair["A"].pipe) => Unwrap(pair["A"].pipe).token # token

\* The step is ready(token, events) for some events.
PairReadyOf(token) == \E events \in EventSets : SocketPipeReady("A", FALSE, token, events)

\* The step is remove_endpoint(token).
PairRemoveOf(token) ==
    /\ pair' = [pair EXCEPT !["A"] = Pair_remove_endpoint(World("A"), token).st]
    /\ UNCHANGED <<pairOpts, pairTimers, pairEvt, pairWire, pairGhost>>

\* The active pipe and the pending requests are as before, and nothing was
\* notified.
PairUntouched ==
    /\ pair'["A"].pipe = pair["A"].pipe
    /\ pair'["A"].pending_send = pair["A"].pending_send
    /\ pair'["A"].pending_recv = pair["A"].pending_recv
    /\ pairEvt' = pairEvt

\* C40: ready(token, events) and remove_endpoint(token) for a token that is
\* not the active pipe's leave the active pipe, the pending send and the
\* pending recv as they were and notify nothing.
C40_ForeignTokenChangesNothing ==
    [][ \A token \in Tokens :
            (PairForeign(token) /\ (PairReadyOf(token) \/ PairRemoveOf(token)))
                => PairUntouched ]_vars

====
